---- MODULE Spec2Model ----
(***************************************************************************)
(* Column-oriented table builder of vidardb-engine                         *)
(* (table/column_table_builder.cc): one main builder (index 0) that owns   *)
(* column_count subcolumn builders (indices 1..column_count), the files    *)
(* they write, and a reader for the files they produce.                    *)
(***************************************************************************)
EXTENDS Integers, Sequences, FiniteSets, TLC

\* ---------------------------------------------------------------- bounds
column_count == 2
MaxAdds == 2
MaxKey == 3
MaxFaults == 1

Main == 0
Subs == 1..column_count
Builders == 0..column_count

\* ------------------------------------------------------------- constants
kBlockTrailerSize == 5
kFooterSize == 53

OK == "OK"
IOError == "IOError"
InvalidArgument == "InvalidArgument"

kNoCompression == "kNoCompression"
\* The compression types CompressBlock has a codec for, and all the values
\* a CompressionType can hold (one of them outside the switch).
CodecTypes ==
    {"kSnappyCompression", "kZlibCompression", "kBZip2Compression",
     "kLZ4Compression", "kLZ4HCCompression", "kXpressCompression",
     "kZSTDNotFinalCompression"}
CompressionTypes == {kNoCompression} \cup CodecTypes \cup {"kUnknownCompression"}
\* The builders of the table are configured without compression.
compression_type == kNoCompression
\* The size from which on WriteBlock hands no block to the compressor, in
\* the scale of the block sizes used here.
kCompressionSizeLimit == 1024
\* No compression dictionary is configured (compression_dict == nullptr).
compression_dict == <<>>
block_restart_interval == 16

NullHandle == [offset |-> 0, size |-> 0]

\* ------------------------------------------------------- byte strings
\* A byte string is a sequence; the bytes of a row position are numbers,
\* the bytes of a value are one-character strings.
PIPE == "|"

RECURSIVE Pow256(_)
Pow256(n) == IF n = 0 THEN 1 ELSE 256 * Pow256(n - 1)

\* util/coding.h PutFixed64BigEndian: 8 bytes, most significant byte first.
\* Entry counts stay below 2^31 here, so the four high bytes are 0.
PutFixed64BigEndian(n) ==
    [i \in 1..8 |-> IF i <= 4 THEN 0 ELSE (n \div Pow256(8 - i)) % 256]

\* The number an 8-byte big-endian string stands for (high bytes 0).
DecodeFixed64BigEndian(p) ==
    p[5] * Pow256(3) + p[6] * Pow256(2) + p[7] * 256 + p[8]

Min(a, b) == IF a < b THEN a ELSE b

\* Index of the first byte at which x and y differ, or Min(len)+1.
RECURSIVE DiffIndex(_, _, _)
DiffIndex(x, y, i) ==
    IF i > Min(Len(x), Len(y)) THEN i
    ELSE IF x[i] # y[i] THEN i
    ELSE DiffIndex(x, y, i + 1)

\* Slice::compare on byte strings: -1, 0, 1.
BytewiseCompare(x, y) ==
    LET d == DiffIndex(x, y, 1) IN
    IF d <= Min(Len(x), Len(y))
    THEN (IF x[d] < y[d] THEN -1 ELSE 1)
    ELSE IF Len(x) < Len(y) THEN -1
    ELSE IF Len(x) > Len(y) THEN 1
    ELSE 0

\* The comparator of builder b: the internal key comparator on the main
\* builder (keys are numbers), the column key comparator on a subcolumn
\* builder (keys are 8-byte row positions).
Compare(b, x, y) ==
    IF b = Main
    THEN (IF x < y THEN -1 ELSE IF x > y THEN 1 ELSE 0)
    ELSE BytewiseCompare(x, y)

\* Comparator::FindShortestSeparator(start, limit): a key s with
\* start <= s < limit, shortened where possible.
FindShortestSeparator(b, start, limit) ==
    IF b = Main
    THEN (IF start + 1 < limit THEN start + 1 ELSE start)
    ELSE LET d == DiffIndex(start, limit, 1) IN
         IF d > Min(Len(start), Len(limit)) THEN start
         ELSE IF start[d] < 255 /\ start[d] + 1 < limit[d]
              THEN [i \in 1..d |-> IF i = d THEN start[i] + 1 ELSE start[i]]
              ELSE start

RECURSIVE FirstNotFF(_, _)
FirstNotFF(x, i) ==
    IF i > Len(x) THEN 0
    ELSE IF x[i] # 255 THEN i
    ELSE FirstNotFF(x, i + 1)

\* Comparator::FindShortSuccessor(key): a short key >= key.
FindShortSuccessor(b, key) ==
    IF b = Main
    THEN key + 1
    ELSE LET d == FirstNotFF(key, 1) IN
         IF d = 0 THEN key
         ELSE [i \in 1..d |-> IF i = d THEN key[i] + 1 ELSE key[i]]

\* ------------------------------------------------------------ splitter
\* Splitter::Split on the pipe delimiter; the empty string splits into no
\* column at all.
RECURSIVE SplitFrom(_, _, _)
SplitFrom(s, i, cur) ==
    IF i > Len(s) THEN <<cur>>
    ELSE IF s[i] = PIPE THEN <<cur>> \o SplitFrom(s, i + 1, <<>>)
    ELSE SplitFrom(s, i + 1, Append(cur, s[i]))

Split(s) == IF s = <<>> THEN <<>> ELSE SplitFrom(s, 1, <<>>)

\* Splitter::Stitch: the columns joined by the pipe delimiter.
RECURSIVE Stitch(_)
Stitch(cols) ==
    IF cols = <<>> THEN <<>>
    ELSE IF Len(cols) = 1 THEN cols[1]
    ELSE cols[1] \o <<PIPE>> \o Stitch(Tail(cols))

\* ------------------------------------------------------------- blocks
\* Length in bytes of a key of builder b and of a value.
KeyBytes(b, k) == IF b = Main THEN 9 ELSE Len(k)
ValueBytes(v) == Len(v)

RECURSIVE EntriesBytes(_, _)
EntriesBytes(b, es) ==
    IF es = <<>> THEN 0
    ELSE 3 + KeyBytes(b, es[1].key) + ValueBytes(es[1].value)
         + EntriesBytes(b, Tail(es))

\* Size of the byte string a block builder's Finish() returns for a block
\* of the given kind: entries plus the restart array.
BlockBytes(b, kind, data) ==
    CASE kind = "data" -> 8 + EntriesBytes(b, data)
      [] kind = "index" -> 8 + 14 * Len(data)
      [] kind = "colmeta" -> 2 + 2 * Len(data.sizes)
      [] kind = "props" -> 20
      [] kind = "dict" -> Len(data)
      [] kind = "metaindex" -> 8 + 6 * Len(data)

\* ------------------------------------------------------ builder state
\* ColumnTableBuilder::Rep of builder b after construction, with the file
\* it writes (the chunks appended so far), the number of Sync and Close
\* calls on that file, and the history of data_block->Add calls.
\* The name of the file of subcolumn col (1-based) of the table fname.
TableSubFileName(fname, col) == fname \o <<"C", col>>

InitRep(b) ==
    [main_column |-> (b = Main),
     fname |-> <<"sst">>,
     offset |-> 0,
     status |-> OK,
     data_block |-> <<>>,
     index_builder |-> <<>>,
     last_key |-> IF b = Main THEN 0 ELSE <<>>,
     num_entries |-> 0,
     num_data_blocks |-> 0,
     data_size |-> 0,
     closed |-> FALSE,
     pending_handle |-> NullHandle,
     builders |-> {},
     file |-> <<>>,
     synced |-> 0,
     file_closed |-> 0,
     raw_key_size |-> 0,
     raw_value_size |-> 0,
     added |-> <<>>]

\* The state a handler runs on: the builders, and the I/O of this call
\* (operations attempted, the attempts that fail, the failures met, the
\* last I/O result, the handle the last block write filled in, the
\* assertions that did not hold, whether the call dereferenced a null
\* file, the value it returns, and the appends, syncs and closes it made
\* on the files, in the order it made them).
Call(reps, failing) ==
    [rep |-> reps, ops |-> 0, fails |-> failing, nfail |-> 0,
     append_failed |-> FALSE, io |-> OK, handle |-> NullHandle,
     asserts |-> {}, crashed |-> FALSE, ret |-> OK, log |-> <<>>]

\* assert(cond): a failed assertion is recorded under its label.
Assertion(s, cond, label) ==
    IF cond THEN s ELSE [s EXCEPT !.asserts = @ \cup {label}]

RECURSIVE FileLength(_)
FileLength(f) == IF f = <<>> THEN 0 ELSE f[1].bytes + FileLength(Tail(f))

\* WritableFileWriter::Append on the file of builder b: the chunk is
\* appended at the end of the file, or the call fails and writes nothing.
FileAppend(s, b, chunk) ==
    LET n == s.ops + 1 IN
    IF n \in s.fails
    THEN [s EXCEPT !.ops = n, !.io = IOError, !.nfail = @ + 1,
                   !.append_failed = TRUE]
    ELSE [s EXCEPT !.ops = n, !.io = OK,
                   !.rep[b].file =
                       Append(@, [chunk EXCEPT !.at = FileLength(s.rep[b].file)]),
                   !.log = Append(@, [b |-> b, what |-> chunk.what,
                                      kind |-> chunk.kind])]

\* WritableFileWriter::Flush on the file of builder b.
FileFlush(s, b) ==
    LET n == s.ops + 1 IN
    IF n \in s.fails
    THEN [s EXCEPT !.ops = n, !.io = IOError, !.nfail = @ + 1]
    ELSE [s EXCEPT !.ops = n, !.io = OK]

\* ColumnTableBuilder::status(): the first non-OK status of a created
\* subcolumn builder, else the builder's own.
RECURSIVE FirstBadSub(_, _)
FirstBadSub(reps, i) ==
    IF i > column_count THEN 0
    ELSE IF i \in reps[Main].builders /\ reps[i].status # OK THEN i
    ELSE FirstBadSub(reps, i + 1)

status(reps, b) ==
    IF b = Main /\ FirstBadSub(reps, 1) # 0
    THEN reps[FirstBadSub(reps, 1)].status
    ELSE reps[b].status

\* ColumnTableBuilder::ok()
ok(s, b) == status(s.rep, b) = OK

\* Statement sequencing: the state e of the statements so far is handed to
\* the rest of the handler F.
Bind(e, F(_)) == CHOOSE r \in {F(v) : v \in {e}} : TRUE

\* ColumnTableBuilder::WriteRawBlock: body, then trailer; the offset
\* advances only when both appends succeeded.
WriteRawBlock(s, b, kind, data, type) ==
    LET h == [offset |-> s.rep[b].offset, size |-> BlockBytes(b, kind, data)]
    IN  Bind(FileAppend(s, b, [what |-> "body", kind |-> kind, data |-> data,
                               type |-> type, bytes |-> h.size, at |-> 0]),
        LAMBDA s1 :
          IF s1.io # OK
          THEN [s1 EXCEPT !.rep[b].status = s1.io, !.handle = h]
          ELSE Bind(FileAppend([s1 EXCEPT !.rep[b].status = s1.io, !.handle = h],
                               b, [what |-> "trailer", kind |-> kind,
                                   data |-> <<>>, type |-> type,
                                   bytes |-> kBlockTrailerSize, at |-> 0]),
               LAMBDA s2 :
                 [s2 EXCEPT !.rep[b].status = s2.io,
                            !.rep[b].offset =
                                IF s2.io = OK
                                THEN @ + h.size + kBlockTrailerSize ELSE @]))

\* GoodCompressionRatio with <= in place of <.
GoodCompressionRatio_Inclusive(compressed_size, raw_size) ==
    compressed_size <= raw_size - (raw_size \div 8)

GoodCompressionRatio(compressed_size, raw_size) ==
    compressed_size < raw_size - (raw_size \div 8)

\* CompressBlock on a block of raw_size bytes; codec is what the library
\* call of the type does with it: whether it succeeds (it fails where the
\* library is not supported) and the size of its output. The result is the
\* size of the returned contents, whether they are the compressed output,
\* and *type.
CompressBlock(raw_size, type, codec) ==
    IF type = kNoCompression
    THEN [size |-> raw_size, compressed |-> FALSE, type |-> type]
    ELSE IF /\ type \in CodecTypes
            /\ codec.ok
            /\ GoodCompressionRatio(codec.size, raw_size)
    THEN [size |-> codec.size, compressed |-> TRUE, type |-> type]
    ELSE [size |-> raw_size, compressed |-> FALSE, type |-> kNoCompression]

\* WriteBlock, lines 469-482: block_contents and type for a raw block of
\* raw_size bytes, from a copy of the builder's compression type.
block_contents(raw_size, type, codec) ==
    IF raw_size < kCompressionSizeLimit
    THEN CompressBlock(raw_size, type, codec)
    ELSE [size |-> raw_size, compressed |-> FALSE, type |-> kNoCompression]

\* The codec is not called when the type is kNoCompression.
NoCodec == [ok |-> FALSE, size |-> 0]

\* ColumnTableBuilder::WriteBlock(const Slice&, handle, is_data_block)
WriteBlockContents(s, b, kind, raw) ==
    Bind(Assertion(s, ok(s, b), "WriteBlock: ok()"),
    LAMBDA s0 :
      WriteRawBlock(s0, b, kind, raw,
                    block_contents(BlockBytes(b, kind, raw), compression_type,
                                   NoCodec).type))

\* WriteBlock without the Reset() of the block builder.
WriteBlock_NoReset(s, b) ==
    Bind(WriteBlockContents(s, b, "data", s.rep[b].data_block),
    LAMBDA s1 : [s1 EXCEPT !.rep[b].pending_handle = s1.handle])

\* ColumnTableBuilder::WriteBlock(BlockBuilder*, handle, is_data_block) on
\* the data block: written with pending_handle as handle, then Reset().
WriteBlock(s, b) ==
    Bind(WriteBlockContents(s, b, "data", s.rep[b].data_block),
    LAMBDA s1 : [s1 EXCEPT !.rep[b].pending_handle = s1.handle,
                           !.rep[b].data_block = <<>>])

\* Flush, lines 446-451: the block write, the file flush, the properties.
FlushBlock(s, b) ==
    Bind(WriteBlock(s, b),
    LAMBDA s1 :
      Bind(IF ok(s1, b)
           THEN Bind(FileFlush(s1, b),
                     LAMBDA f : [f EXCEPT !.rep[b].status = f.io])
           ELSE s1,
      LAMBDA s2 : [s2 EXCEPT !.rep[b].data_size = s2.rep[b].offset,
                             !.rep[b].num_data_blocks = @ + 1]))

\* Flush without the early return on a non-OK status.
Flush_NoOkCheck(s, b) ==
    Bind(Assertion(s, ~s.rep[b].closed, "Flush: !closed"),
    LAMBDA s0 :
      IF s0.rep[b].data_block = <<>> THEN s0
      ELSE FlushBlock(s0, b))

\* ColumnTableBuilder::Flush()
Flush(s, b) ==
    Bind(Assertion(s, ~s.rep[b].closed, "Flush: !closed"),
    LAMBDA s0 :
      IF ~ok(s0, b) THEN s0
      ELSE IF s0.rep[b].data_block = <<>> THEN s0
      ELSE FlushBlock(s0, b))

\* AddIndexEntry that stores the first key of the next block as separator.
AddIndexEntry_NextKey(s, b, has_next, next_key, handle) ==
    LET sep == IF has_next THEN next_key
               ELSE FindShortSuccessor(b, s.rep[b].last_key)
    IN  [s EXCEPT !.rep[b].last_key = sep,
                  !.rep[b].index_builder =
                      Append(@, [key |-> sep, handle |-> handle]),
                  !.log = Append(@, [b |-> b, what |-> "index",
                                     kind |-> "data", has_next |-> has_next,
                                     hint |-> next_key, handle |-> handle])]

\* ShortenedIndexBuilder::AddIndexEntry on builder b: last_key is
\* shortened in place and added to the index with the handle.
AddIndexEntry(s, b, has_next, next_key, handle) ==
    LET sep == IF has_next
               THEN FindShortestSeparator(b, s.rep[b].last_key, next_key)
               ELSE FindShortSuccessor(b, s.rep[b].last_key)
    IN  [s EXCEPT !.rep[b].last_key = sep,
                  !.rep[b].index_builder =
                      Append(@, [key |-> sep, handle |-> handle]),
                  !.log = Append(@, [b |-> b, what |-> "index",
                                     kind |-> "data", has_next |-> has_next,
                                     hint |-> next_key, handle |-> handle])]

\* FlushBlockPolicy::Update: the policy's decision for this pair; an empty
\* block is never sealed.
Update(decision, block) == decision /\ block # <<>>

\* NewWritableFile for the file of subcolumn i.
NewWritableFile(s, i) ==
    LET n == s.ops + 1 IN
    [s EXCEPT !.ops = n, !.io = IF n \in s.fails THEN IOError ELSE OK,
              !.nfail = IF n \in s.fails THEN @ + 1 ELSE @,
              !.log = Append(@, [b |-> i, what |-> "open",
                                 kind |-> IF n \in s.fails THEN IOError
                                          ELSE OK])]

\* ColumnTableBuilder::CreateSubcolumnBuilders: the files are opened in
\* column order; builder i here is r->builders[i - 1] of the code, on the
\* file TableSubFileName(fname, i). A failed open fails the assertion; past it the null file
\* is dereferenced and the call does not continue.
RECURSIVE CreateSubcolumnBuilders(_, _)
CreateSubcolumnBuilders(s, i) ==
    IF i > column_count THEN s
    ELSE Bind(NewWritableFile(s, i),
         LAMBDA s1 :
           IF s1.io # OK
           THEN [Assertion(s1, FALSE, "CreateSubcolumnBuilders: status.ok()")
                     EXCEPT !.rep[Main].status = s1.io, !.crashed = TRUE]
           ELSE CreateSubcolumnBuilders(
                    [s1 EXCEPT !.rep[Main].status = s1.io,
                               !.rep[Main].builders = @ \cup {i},
                               !.rep[i] =
                                   [InitRep(i) EXCEPT !.fname =
                                       TableSubFileName(s.rep[Main].fname, i)]],
                    i + 1))

\* ColumnBlockBuilder::IsKeyStored after an Add: the key is kept at restart
\* points only; BlockBuilder keeps every key.
IsKeyStored(b, block) ==
    b = Main \/ (Len(block) - 1) % block_restart_interval = 0

\* AddEntry with the entry count left as it is.
AddEntry_NoCount(s, b, key, value) ==
    LET blk == Append(s.rep[b].data_block, [key |-> key, value |-> value])
    IN  [s EXCEPT !.rep[b].last_key = key,
                  !.rep[b].data_block = blk,
                  !.rep[b].added = Append(@, [key |-> key, value |-> value]),
                  !.log = Append(@, [b |-> b, what |-> "add", kind |-> "data",
                                     key |-> key])]

\* The tail of Add / AddInSubcolumnBuilders on builder b: last_key,
\* data_block->Add, the properties.
AddEntry(s, b, key, value) ==
    LET blk == Append(s.rep[b].data_block, [key |-> key, value |-> value])
    IN  [s EXCEPT !.rep[b].last_key = key,
                  !.rep[b].data_block = blk,
                  !.rep[b].added = Append(@, [key |-> key, value |-> value]),
                  !.log = Append(@, [b |-> b, what |-> "add", kind |-> "data",
                                     key |-> key]),
                  !.rep[b].num_entries = @ + 1,
                  !.rep[b].raw_key_size =
                      @ + (IF b = Main \/ IsKeyStored(b, blk)
                           THEN KeyBytes(b, key) ELSE 0),
                  !.rep[b].raw_value_size = @ + ValueBytes(value)]

\* The seal with the index entry added before the block is written.
SealBlock_IndexFirst(s, b, key, label) ==
    Bind(Assertion(s, s.rep[b].data_block # <<>>, label),
    LAMBDA s0 :
      Bind(AddIndexEntry(s0, b, TRUE, key, s0.rep[b].pending_handle),
      LAMBDA s1 : Flush(s1, b)))

\* The policy-driven seal in Add / AddInSubcolumnBuilders on builder b:
\* Flush, then the index entry of the sealed block if the builder is ok.
SealBlock(s, b, key, label) ==
    Bind(Assertion(s, s.rep[b].data_block # <<>>, label),
    LAMBDA s0 :
      Bind(Flush(s0, b),
      LAMBDA s1 :
        IF ok(s1, b)
        THEN AddIndexEntry(s1, b, TRUE, key, s1.rep[b].pending_handle)
        ELSE s1))

\* The loop body of AddInSubcolumnBuilders for subcolumn i, from line 365.
AddInSubcolumn(s, i, key, value, fl) ==
    Bind(Assertion(s, s.rep[i].num_entries = 0
                      \/ Compare(i, key, s.rep[i].last_key) > 0,
                   "AddInSubcolumnBuilders: key > last_key"),
    LAMBDA s1 :
      Bind(IF Update(i \in fl, s1.rep[i].data_block)
           THEN SealBlock(s1, i, key, "AddInSubcolumnBuilders: !empty")
           ELSE s1,
      LAMBDA s2 : AddEntry(s2, i, key, value)))

RECURSIVE AddInSubcolumnLoop(_, _, _, _, _)
AddInSubcolumnLoop(s, i, key, vals, fl) ==
    IF i > column_count THEN s
    ELSE Bind(Assertion(s, ~s.rep[i].closed, "AddInSubcolumnBuilders: !closed"),
         LAMBDA s0 :
           IF ~ok(s0, i) THEN s0
           ELSE Bind(AddInSubcolumn(s0, i, key,
                                    IF vals = <<>> THEN <<>> ELSE vals[i], fl),
                LAMBDA s1 : AddInSubcolumnLoop(s1, i + 1, key, vals, fl)))

\* AddInSubcolumnBuilders without the check of the number of columns: the
\* columns that are there are added, missing ones as empty strings.
AddInSubcolumnBuilders_NoArityCheck(s, key, value, fl) ==
    AddInSubcolumnLoop(s, 1, key,
                       [i \in Subs |-> IF i <= Len(Split(value))
                                       THEN Split(value)[i] ELSE <<>>],
                       fl)

\* AddInSubcolumnBuilders that takes the empty split for a wrong number of
\* columns.
AddInSubcolumnBuilders_RejectsEmpty(s, key, value, fl) ==
    IF Len(Split(value)) # column_count
    THEN [s EXCEPT !.rep[Main].status = InvalidArgument]
    ELSE AddInSubcolumnLoop(s, 1, key, Split(value), fl)

\* ColumnTableBuilder::AddInSubcolumnBuilders
AddInSubcolumnBuilders(s, key, value, fl) ==
    LET vals == Split(value) IN
    IF vals # <<>> /\ Len(vals) # column_count
    THEN [s EXCEPT !.rep[Main].status = InvalidArgument]
    ELSE AddInSubcolumnLoop(s, 1, key, vals, fl)

\* Add that hands the subcolumn builders the row position 0 at every call.
AddRecord_SamePos(s, key, value, fl) ==
    LET pos == PutFixed64BigEndian(s.rep[Main].num_entries) IN
    Bind(IF Update(Main \in fl, s.rep[Main].data_block)
         THEN SealBlock(s, Main, key, "Add: !empty")
         ELSE s,
    LAMBDA s3 :
      Bind(AddEntry(s3, Main, key, pos),
      LAMBDA s4 : AddInSubcolumnBuilders(s4, PutFixed64BigEndian(0), value, fl)))

\* Add, lines 405-438: the row position, the policy-driven seal, the main
\* entry, then the subcolumn builders.
AddRecord(s, key, value, fl) ==
    LET pos == PutFixed64BigEndian(s.rep[Main].num_entries) IN
    Bind(IF Update(Main \in fl, s.rep[Main].data_block)
         THEN SealBlock(s, Main, key, "Add: !empty")
         ELSE s,
    LAMBDA s3 :
      Bind(AddEntry(s3, Main, key, pos),
      LAMBDA s4 : AddInSubcolumnBuilders(s4, pos, value, fl)))

\* Add that creates the subcolumn builders at every call.
Add_Recreates(s, key, value, fl) ==
    Bind(Assertion(s, ~s.rep[Main].closed, "Add: !closed"),
    LAMBDA s0 :
      IF ~ok(s0, Main) THEN s0
      ELSE Bind(Assertion(s0, s0.rep[Main].num_entries = 0
                              \/ Compare(Main, key, s0.rep[Main].last_key) > 0,
                          "Add: key > last_key"),
           LAMBDA s1 :
             Bind(CreateSubcolumnBuilders(s1, 1),
             LAMBDA s2 :
               IF s2.crashed THEN s2 ELSE AddRecord(s2, key, value, fl))))

\* ColumnTableBuilder::Add on the main builder; fl are the builders whose
\* flush policy signals a seal for this record.
Add(s, key, value, fl) ==
    Bind(Assertion(s, ~s.rep[Main].closed, "Add: !closed"),
    LAMBDA s0 :
      IF ~ok(s0, Main) THEN s0
      ELSE Bind(Assertion(s0, s0.rep[Main].num_entries = 0
                              \/ Compare(Main, key, s0.rep[Main].last_key) > 0,
                          "Add: key > last_key"),
           LAMBDA s1 :
             Bind(IF s1.rep[Main].builders = {}
                  THEN CreateSubcolumnBuilders(s1, 1) ELSE s1,
             LAMBDA s2 :
               IF s2.crashed THEN s2 ELSE AddRecord(s2, key, value, fl))))

\* The column-meta block Finish builds: (main_column, column_count) and the
\* file size of every created subcolumn builder.
MetaColumnBlock(s, b) ==
    [main |-> s.rep[b].main_column,
     sizes |-> [i \in 1..Cardinality(s.rep[b].builders) |-> s.rep[i].offset]]

\* The properties block Finish builds.
PropertyBlock(s, b) ==
    [num_entries |-> s.rep[b].num_entries,
     num_data_blocks |-> s.rep[b].num_data_blocks,
     data_size |-> s.rep[b].data_size,
     raw_key_size |-> s.rep[b].raw_key_size,
     raw_value_size |-> s.rep[b].raw_value_size,
     index_size |-> BlockBytes(b, "index", s.rep[b].index_builder)
                    + kBlockTrailerSize]

\* A meta block's entry in the metaindex.
MetaIndexEntry(name, handle) == [name |-> name, handle |-> handle]

\* Finish, lines 564-629: column-meta, properties and the optional
\* compression dictionary block, each entered in the metaindex.
WriteMetaBlocks(s, b) ==
    Bind(WriteRawBlock(s, b, "colmeta", MetaColumnBlock(s, b), kNoCompression),
    LAMBDA s1 :
      Bind(WriteRawBlock(s1, b, "props", PropertyBlock(s1, b), kNoCompression),
      LAMBDA s2 :
        IF compression_dict # <<>>
        THEN Bind(WriteRawBlock(s2, b, "dict", compression_dict, kNoCompression),
             LAMBDA s3 :
               [st |-> s3,
                meta_index |->
                    <<MetaIndexEntry("vidardb.column", s1.handle),
                      MetaIndexEntry("vidardb.properties", s2.handle),
                      MetaIndexEntry("vidardb.compression_dict", s3.handle)>>])
        ELSE [st |-> s2,
              meta_index |->
                  <<MetaIndexEntry("vidardb.column", s1.handle),
                    MetaIndexEntry("vidardb.properties", s2.handle)>>]))

\* Finish, lines 631-637: the metaindex block, then the index block.
WriteIndexBlocks(s, b, meta_index) ==
    Bind(WriteRawBlock(s, b, "metaindex", meta_index, kNoCompression),
    LAMBDA s1 :
      Bind(WriteBlockContents(s1, b, "index", s1.rep[b].index_builder),
      LAMBDA s2 :
        [st |-> s2, metaindex_handle |-> s1.handle,
         index_handle |-> s2.handle]))

\* Finish, lines 639-651: the footer.
WriteFooter(s, b, metaindex_handle, index_handle) ==
    Bind(FileAppend(s, b,
             [what |-> "footer", kind |-> "footer",
              data |-> [metaindex_handle |-> metaindex_handle,
                        index_handle |-> index_handle],
              type |-> kNoCompression, bytes |-> kFooterSize, at |-> 0]),
    LAMBDA s1 :
      [s1 EXCEPT !.rep[b].status = s1.io,
                 !.rep[b].offset = IF s1.io = OK THEN @ + kFooterSize ELSE @])

\* The loop of lines 655-662 with the Sync call left out.
RECURSIVE SyncAndClose_NoSync(_, _)
SyncAndClose_NoSync(s, i) ==
    IF i > column_count THEN s
    ELSE IF i \in s.rep[Main].builders /\ s.rep[i].status = OK
    THEN SyncAndClose_NoSync(
             [s EXCEPT !.rep[i].file_closed = @ + 1,
                       !.log = Append(@, [b |-> i, what |-> "Close",
                                          kind |-> "file"])],
             i + 1)
    ELSE SyncAndClose_NoSync(s, i + 1)

\* Finish, lines 655-662: every subcolumn file whose builder is ok is
\* synced and closed.
RECURSIVE SyncAndClose(_, _)
SyncAndClose(s, i) ==
    IF i > column_count THEN s
    ELSE IF i \in s.rep[Main].builders /\ s.rep[i].status = OK
    THEN SyncAndClose(
             [s EXCEPT !.rep[i].synced = @ + 1,
                       !.rep[i].file_closed = @ + 1,
                       !.log = @ \o <<[b |-> i, what |-> "Sync", kind |-> "file"],
                                      [b |-> i, what |-> "Close", kind |-> "file"]>>],
             i + 1)
    ELSE SyncAndClose(s, i + 1)

\* Finish, lines 556-664: the meta blocks, the index blocks and the footer,
\* each only if the builder is ok; then the subcolumn files.
FinishBlocks(s, b) ==
    Bind(IF ok(s, b) THEN WriteMetaBlocks(s, b)
         ELSE [st |-> s, meta_index |-> <<>>],
    LAMBDA w5 :
      Bind(IF ok(w5.st, b) THEN WriteIndexBlocks(w5.st, b, w5.meta_index)
           ELSE [st |-> w5.st, metaindex_handle |-> NullHandle,
                 index_handle |-> NullHandle],
      LAMBDA w6 :
        Bind(IF ok(w6.st, b)
             THEN WriteFooter(w6.st, b, w6.metaindex_handle, w6.index_handle)
             ELSE w6.st,
        LAMBDA s7 :
          Bind(IF s7.rep[b].main_column THEN SyncAndClose(s7, 1) ELSE s7,
          LAMBDA s8 : [s8 EXCEPT !.ret = s8.rep[b].status]))))

\* ColumnTableBuilder::Finish from line 534 on, for builder b.
FinishSelf(s, b) ==
    Bind(Flush(s, b),
    LAMBDA s1 :
      Bind([Assertion(s1, ~s1.rep[b].closed, "Finish: !closed")
                EXCEPT !.rep[b].closed = TRUE],
      LAMBDA s3 :
        Bind(IF ok(s3, b) /\ s.rep[b].data_block # <<>>
             THEN AddIndexEntry(s3, b, FALSE, 0, s3.rep[b].pending_handle)
             ELSE s3,
        LAMBDA s4 : FinishBlocks(s4, b))))

\* Finish, lines 523-532: the subcolumn builders are finished in column
\* order; the first one that fails ends the call with its status.
RECURSIVE FinishSubcolumns(_, _)
FinishSubcolumns(s, i) ==
    IF i > column_count THEN [s EXCEPT !.ret = OK]
    ELSE IF i \notin s.rep[Main].builders THEN FinishSubcolumns(s, i + 1)
    ELSE Bind(FinishSelf(s, i),
         LAMBDA s1 :
           IF s1.ret # OK
           THEN [s1 EXCEPT !.rep[i].status = s1.ret]
           ELSE FinishSubcolumns([s1 EXCEPT !.rep[i].status = s1.ret], i + 1))

\* ColumnTableBuilder::Finish on the main builder.
Finish(s) ==
    Bind(FinishSubcolumns(s, 1),
    LAMBDA s1 : IF s1.ret # OK THEN s1 ELSE FinishSelf(s1, Main))

\* ColumnTableBuilder::Abandon on the main builder.
RECURSIVE AbandonSubcolumns(_, _)
AbandonSubcolumns(s, i) ==
    IF i > column_count THEN s
    ELSE IF i \notin s.rep[Main].builders THEN AbandonSubcolumns(s, i + 1)
    ELSE AbandonSubcolumns(
             [Assertion(s, ~s.rep[i].closed, "Abandon: !it->closed")
                  EXCEPT !.rep[i].closed = TRUE],
             i + 1)

\* Abandon, lines 675-676.
AbandonSelf(s) ==
    [Assertion(s, ~s.rep[Main].closed, "Abandon: !closed")
         EXCEPT !.rep[Main].closed = TRUE]

\* Abandon that writes the pending main data block before closing.
Abandon_Flushes(s) ==
    Bind(Flush(s, Main),
    LAMBDA s0 : Bind(AbandonSubcolumns(s0, 1), LAMBDA s1 : AbandonSelf(s1)))

Abandon(s) == Bind(AbandonSubcolumns(s, 1), LAMBDA s1 : AbandonSelf(s1))

\* ColumnTableBuilder::NumEntries, FileSize, FileSizeTotal
NumEntries(reps) == reps[Main].num_entries

FileSize(reps) == reps[Main].offset

RECURSIVE SumOffsets(_, _)
SumOffsets(reps, i) ==
    IF i > column_count THEN 0
    ELSE (IF i \in reps[Main].builders THEN reps[i].offset ELSE 0)
         + SumOffsets(reps, i + 1)

\* FileSizeTotal without the subcolumn builders.
FileSizeTotal_MainOnly(reps) == reps[Main].offset

FileSizeTotal(reps) == reps[Main].offset + SumOffsets(reps, 1)

\* ------------------------------------------------- two-level iterator
\* A table is the sequence of its index entries, each with the separator
\* key and the entries of the data block it names. The iterator holds the
\* position of the index iterator (Len + 1 past the end) and the data
\* iterator: the block it runs over (0: none) and its position in it.
NoIterator ==
    [table |-> <<>>, first |-> 1, second |-> [block |-> 0, pos |-> 0],
     op |-> "none", target |-> 0, scan |-> <<>>]

FirstValid(i) == i.first \in 1..Len(i.table)

SecondValid(i) ==
    /\ i.second.block # 0
    /\ i.second.pos \in 1..Len(i.table[i.second.block].entries)

\* TwoLevelIterator::Valid, key and value.
TwoLevelValid(i) == SecondValid(i)
TwoLevelEntry(i) == i.table[i.second.block].entries[i.second.pos]

\* InitDataBlock: the data iterator of the block the index iterator is
\* at, not yet positioned; none if the index iterator is not valid.
InitDataBlock(i) ==
    IF FirstValid(i)
    THEN [i EXCEPT !.second = [block |-> i.first, pos |-> 0]]
    ELSE [i EXCEPT !.second = [block |-> 0, pos |-> 0]]

\* The data iterator's SeekToFirst and Seek, where there is one.
SecondSeekToFirst(i) ==
    IF i.second.block = 0 THEN i ELSE [i EXCEPT !.second.pos = 1]

SecondSeek(i, k) ==
    IF i.second.block = 0 THEN i
    ELSE LET es == i.table[i.second.block].entries
             ge == {p \in 1..Len(es) : Compare(Main, es[p].key, k) >= 0}
         IN  [i EXCEPT !.second.pos =
                           IF ge = {} THEN Len(es) + 1
                           ELSE CHOOSE p \in ge : \A q \in ge : p <= q]

\* The index iterator's Seek: the first entry whose separator is >= k.
FirstSeek(i, k) ==
    LET ge == {j \in 1..Len(i.table) : Compare(Main, i.table[j].sep, k) >= 0}
    IN  [i EXCEPT !.first = IF ge = {} THEN Len(i.table) + 1
                            ELSE CHOOSE j \in ge : \A q \in ge : j <= q]

\* SkipEmptyDataBlocksForward with a single step of the index iterator.
SkipEmptyDataBlocksForward_OneStep(i) ==
    IF SecondValid(i) THEN i
    ELSE IF ~FirstValid(i) THEN [i EXCEPT !.second = [block |-> 0, pos |-> 0]]
    ELSE SecondSeekToFirst(InitDataBlock([i EXCEPT !.first = @ + 1]))

\* SkipEmptyDataBlocksForward: while there is no data iterator or it is
\* not valid, the index iterator steps to the next block and the data
\* iterator is rebuilt at that block's first key.
RECURSIVE SkipEmptyDataBlocksForward(_)
SkipEmptyDataBlocksForward(i) ==
    IF SecondValid(i) THEN i
    ELSE IF ~FirstValid(i) THEN [i EXCEPT !.second = [block |-> 0, pos |-> 0]]
    ELSE SkipEmptyDataBlocksForward(
             SecondSeekToFirst(InitDataBlock([i EXCEPT !.first = @ + 1])))

TwoLevelSeekToFirst(i) ==
    SkipEmptyDataBlocksForward(
        SecondSeekToFirst(InitDataBlock([i EXCEPT !.first = 1])))

\* Seek that positions the data iterator at the first key of its block.
TwoLevelSeek_NoDataSeek(i, k) ==
    SkipEmptyDataBlocksForward(SecondSeekToFirst(InitDataBlock(FirstSeek(i, k))))

TwoLevelSeek(i, k) ==
    SkipEmptyDataBlocksForward(SecondSeek(InitDataBlock(FirstSeek(i, k)), k))

TwoLevelNext(i) ==
    SkipEmptyDataBlocksForward([i EXCEPT !.second.pos = @ + 1])

\* --------------------------------------------------------------- FileIter
\* A FileIter: its children (each with what its Valid() returns and what
\* its GetMinMax and RangeQuery return), the cursor cur_ and status_.
FileIterOf(children) == [children |-> children, cur_ |-> 0, status_ |-> OK]

\* children_[cur_] is an element of the vector.
InRange(f) == f.cur_ < Len(f.children)

\* FileIter::Valid; ub is what the read of children_[cur_] past the end of
\* the vector makes of the call.
FileIterValid(f, ub) ==
    IF f.children = <<>> THEN [ret |-> FALSE, oob |-> FALSE]
    ELSE IF InRange(f)
    THEN [ret |-> f.children[f.cur_ + 1].valid, oob |-> FALSE]
    ELSE [ret |-> ub, oob |-> TRUE]

\* SeekToFirst that also resets the cursor of an empty FileIter.
FileIterSeekToFirst_Always(f) == [f EXCEPT !.cur_ = 0]

\* FileIter::SeekToFirst
FileIterSeekToFirst(f) ==
    IF f.children = <<>> THEN f ELSE [f EXCEPT !.cur_ = 0]

\* FileIter::Next
FileIterNext(f) == [f EXCEPT !.cur_ = @ + 1]

\* FileIter::GetMinMax and FileIter::RangeQuery: the child's call, whose
\* result is dropped, then status_.
FileIterGetMinMax(f) ==
    [ret |-> f.status_, oob |-> ~InRange(f),
     child |-> IF InRange(f) THEN f.children[f.cur_ + 1].status ELSE OK]

FileIterRangeQuery(f) ==
    [ret |-> f.status_, oob |-> ~InRange(f),
     child |-> IF InRange(f) THEN f.children[f.cur_ + 1].status ELSE OK]

\* No FileIter in use.
NoFileIter ==
    [iter |-> FileIterOf(<<>>), op |-> "none", ret |-> FALSE, oob |-> FALSE,
     child |-> OK, seeked |-> FALSE, nexts |-> 0, pc |-> "idle",
     visited |-> <<>>]

\* ------------------------------------------------------------- compaction
\* An entry of a table file: user key, sequence number, type and value.
kTypeDeletion == "kTypeDeletion"
kTypeValue == "kTypeValue"

KeyStr(user_key, seq, type, value) ==
    [key |-> user_key, seq |-> seq, type |-> type, value |-> value]

\* A compaction: the entries of its input files, the entries of the files
\* at levels below its output level that are not inputs, and the last
\* sequence number of the version set.
UserKeys(entries) == {e.key : e \in entries}

GetLargestUserKey(c) ==
    CHOOSE k \in UserKeys(c.input) : \A j \in UserKeys(c.input) : j <= k

\* The newest version of user key k among the inputs.
Newest(entries, k) ==
    CHOOSE e \in entries :
        e.key = k /\ \A f \in entries : f.key = k => f.seq <= e.seq

\* The output level is the bottommost one: no data at the levels below.
IsBottommostLevel_Always(c) == TRUE

IsBottommostLevel(c) == c.deeper = {}

\* The sequence number of an output entry: zeroed at the bottommost level
\* for an entry older than the earliest snapshot (the last sequence, there
\* being no snapshots), unless its user key is the largest of the inputs.
PrepareOutput_ZeroAll(c, e) ==
    IF IsBottommostLevel(c) /\ e.seq < c.last_sequence
    THEN [e EXCEPT !.seq = 0] ELSE e

PrepareOutput(c, e) ==
    IF /\ IsBottommostLevel(c)
       /\ e.seq < c.last_sequence
       /\ e.key # GetLargestUserKey(c)
    THEN [e EXCEPT !.seq = 0] ELSE e

\* The entries a compaction without snapshots writes: the newest version
\* of every user key; a key whose newest version is a deletion has no
\* entry at the bottommost level and its tombstone elsewhere.
Compact(c) ==
    {PrepareOutput(c, Newest(c.input, k)) :
        k \in {j \in UserKeys(c.input) :
                  ~(/\ IsBottommostLevel(c)
                    /\ Newest(c.input, j).type = kTypeDeletion)}}

\* No compaction job in use.
NoCompaction ==
    [input |-> {}, deeper |-> {}, last_sequence |-> 0, ran |-> FALSE,
     output |-> {}, num_output_files |-> 0]

\* VersionSet::SetLastSequence as the tests call it.
SetLastSequence(sequence_number) == sequence_number + 1

\* The compactions of the tests (keys a, b, c as 1, 2, 3) and their
\* expected results.
SimpleDeletion ==
    [input |-> {KeyStr(3, 4, kTypeDeletion, ""), KeyStr(3, 3, kTypeValue, "val"),
                KeyStr(2, 2, kTypeValue, "val"), KeyStr(2, 1, kTypeValue, "val")},
     deeper |-> {},
     last_sequence |-> SetLastSequence(4),
     expected |-> {KeyStr(2, 0, kTypeValue, "val")}]

SimpleOverwrite ==
    [input |-> {KeyStr(1, 3, kTypeValue, "val2"), KeyStr(2, 4, kTypeValue, "val3"),
                KeyStr(1, 1, kTypeValue, "val"), KeyStr(2, 2, kTypeValue, "val")},
     deeper |-> {},
     last_sequence |-> SetLastSequence(4),
     expected |-> {KeyStr(1, 0, kTypeValue, "val2"),
                   KeyStr(2, 4, kTypeValue, "val3")}]

SimpleNonLastLevel ==
    [input |-> {KeyStr(1, 5, kTypeValue, "val2"), KeyStr(2, 6, kTypeValue, "val3"),
                KeyStr(1, 3, kTypeValue, "val"), KeyStr(2, 4, kTypeValue, "val")},
     deeper |-> {KeyStr(1, 1, kTypeValue, "val"), KeyStr(2, 2, kTypeValue, "val")},
     last_sequence |-> SetLastSequence(6),
     expected |-> {KeyStr(1, 5, kTypeValue, "val2"),
                   KeyStr(2, 6, kTypeValue, "val3")}]

Tests == {SimpleDeletion, SimpleOverwrite, SimpleNonLastLevel}

\* ------------------------------------------------------- the callers
VARIABLES
    rep,            \* the Rep of the main builder (0) and of its subcolumns
    faults,         \* I/O operations that have failed so far
    adds,           \* the (key, value) of every Add that found the builder ok
                    \* and ran to its end
    flushes,        \* calls of the public Flush() that found the builder ok
    last,           \* the last call: operation, ok() before it, result,
                    \* the file operations it made
    finish_called,  \* Finish() has been called
    assert_failed,  \* labels of the assertions that did not hold
    wb,             \* a builder's compression type and the blocks WriteBlock
                    \* has stored for it
    it,             \* a two-level iterator, the table it runs over and the
                    \* entries it has been positioned at
    fi,             \* a FileIter and what its caller has seen of it
    cj              \* a compaction job: its input and its output

table_vars == <<rep, faults, adds, flushes, last, finish_called, assert_failed>>
vars == <<rep, faults, adds, flushes, last, finish_called, assert_failed, wb,
          it, fi, cj>>

Letters == <<"a", "b", "c", "d", "e">>

\* The values given to Add: two tuples of column_count columns, the empty
\* value, a tuple of column_count + 1 columns and one of column_count - 1.
Values ==
    { Stitch([i \in 1..column_count |-> <<Letters[i]>>]),
      Stitch([i \in 1..column_count |->
                 IF i = 1 THEN <<Letters[column_count + 1]>> ELSE <<>>]),
      <<>>,
      Stitch([i \in 1..(column_count + 1) |-> <<Letters[i]>>]),
      Stitch([i \in 1..(column_count - 1) |-> <<Letters[i]>>]) }

Keys == 1..MaxKey

\* The sets of at most k of the I/O operations 1..n of a call.
RECURSIVE FailSets(_, _)
FailSets(n, k) ==
    IF k <= 0 THEN {{}}
    ELSE LET P == FailSets(n, k - 1) IN P \cup {F \cup {i} : F \in P, i \in 1..n}

\* I/O operations a call can make: opens and three per sealed block in Add,
\* three in Flush, fourteen per builder in Finish.
AddOps == column_count + 3 * (column_count + 1)
FlushOps == 3
FinishOps == 14 * (column_count + 1)

Init ==
    /\ rep = [b \in Builders |-> InitRep(b)]
    /\ faults = 0
    /\ adds = <<>>
    /\ flushes = 0
    /\ last = [op |-> "none", ok_before |-> TRUE, ret |-> OK,
               append_failed |-> FALSE, log |-> <<>>]
    /\ finish_called = FALSE
    /\ assert_failed = {}
    /\ wb = [compression_type |-> compression_type, blocks |-> <<>>,
            meta_blocks |-> <<>>]
    /\ it = NoIterator
    /\ fi = NoFileIter
    /\ cj = NoCompaction

Returned(s, op, r) ==
    /\ rep' = s.rep
    /\ faults' = faults + s.nfail
    /\ assert_failed' = assert_failed \cup s.asserts
    /\ last' = [op |-> op, ok_before |-> status(rep, Main) = OK, ret |-> r,
                append_failed |-> s.append_failed, log |-> s.log]

\* The caller adds a record with a key above the last one it added.
CallAdd ==
    /\ assert_failed = {}
    /\ ~finish_called
    /\ ~rep[Main].closed
    /\ Len(adds) < MaxAdds
    /\ \E key \in Keys, value \in Values, fl \in SUBSET Builders,
          F \in FailSets(AddOps, MaxFaults - faults) :
          /\ adds # <<>> => key > adds[Len(adds)].key
          /\ \E s \in {Add(Call(rep, F), key, value, fl)} :
             /\ Returned(s, "Add", OK)
             /\ adds' = IF status(rep, Main) = OK /\ ~s.crashed
                        THEN Append(adds, [key |-> key, value |-> value])
                        ELSE adds
    /\ UNCHANGED <<flushes, finish_called, wb, it, fi, cj>>

\* The caller adds a record with a key that is not above the last one it
\* added.
CallAddOutOfOrder ==
    /\ assert_failed = {}
    /\ ~finish_called
    /\ ~rep[Main].closed
    /\ adds # <<>>
    /\ \E key \in Keys, value \in Values, fl \in SUBSET Builders,
          F \in FailSets(AddOps, MaxFaults - faults) :
          /\ key <= adds[Len(adds)].key
          /\ \E s \in {Add(Call(rep, F), key, value, fl)} :
                Returned(s, "AddOutOfOrder", OK)
    /\ UNCHANGED <<adds, flushes, finish_called, wb, it, fi, cj>>

\* The caller seals the current main data block.
CallFlush ==
    /\ assert_failed = {}
    /\ ~finish_called
    /\ ~rep[Main].closed
    /\ \E F \in FailSets(FlushOps, MaxFaults - faults) :
          \E s \in {Flush(Call(rep, F), Main)} :
          /\ Returned(s, "Flush", OK)
          /\ flushes' = IF status(rep, Main) = OK /\ rep[Main].data_block # <<>>
                        THEN flushes + 1 ELSE flushes
    /\ UNCHANGED <<adds, finish_called, wb, it, fi, cj>>

\* The caller finishes the table.
CallFinish ==
    /\ assert_failed = {}
    /\ ~finish_called
    /\ ~rep[Main].closed
    /\ \E F \in FailSets(FinishOps, MaxFaults - faults) :
          \E s \in {Finish(Call(rep, F))} : Returned(s, "Finish", s.ret)
    /\ finish_called' = TRUE
    /\ UNCHANGED <<adds, flushes, wb, it, fi, cj>>

\* The caller abandons the table.
CallAbandon ==
    /\ assert_failed = {}
    /\ ~rep[Main].closed
    /\ \E s \in {Abandon(Call(rep, {}))} : Returned(s, "Abandon", OK)
    /\ UNCHANGED <<adds, flushes, finish_called, wb, it, fi, cj>>

Next == CallAdd \/ CallFlush \/ CallFinish \/ CallAbandon

Spec == Init /\ [][Next]_vars

\* The builder under a caller that does not keep its keys in order.
NextOrder == CallAdd \/ CallAddOutOfOrder

SpecOrder == Init /\ [][NextOrder]_vars

\* ----------------------------------------------- compression of a block
MaxBlocks == 2

\* Raw block sizes: a small one and the sizes around the limit.
RawSizes ==
    {16, kCompressionSizeLimit - 1, kCompressionSizeLimit,
     kCompressionSizeLimit + 1}

\* Sizes of the codec's output for a raw block: around raw - raw / 8.
CompressedSizes(raw_size) ==
    {raw_size - (raw_size \div 8) - 1, raw_size - (raw_size \div 8)}

\* The bytes of a block: the codec's output or the raw block, of a size.
Bytes(compressed, size) == [compressed |-> compressed, size |-> size]

\* crc32c::Value, crc32c::Extend and crc32c::Mask, as terms.
crc32c_Value(data) == <<"crc32c", data>>

crc32c_Extend(crc, data) == <<"crc32c", <<crc[2], data>> >>

crc32c_Mask(crc) == <<"Mask", crc>>

\* WriteRawBlock, lines 496-503: the trailer of a block, the type byte and
\* the masked checksum of the contents extended by the type byte.
BlockTrailer(contents, type) ==
    [type |-> type,
     crc |-> crc32c_Mask(crc32c_Extend(crc32c_Value(contents), type))]

\* WriteBlock with the checksum taken over the raw block.
WriteBlockCompression_RawChecksum(w, raw_size, codec) ==
    LET c == block_contents(raw_size, w.compression_type, codec) IN
    [w EXCEPT !.blocks = Append(@, [raw_size |-> raw_size, codec |-> codec,
                                    attempted |-> w.compression_type,
                                    stored |-> c,
                                    trailer |-> BlockTrailer(Bytes(FALSE, raw_size),
                                                             c.type)])]

\* WriteBlock, lines 468-484, on a builder with compression type
\* w.compression_type: the stored block is recorded with the raw size, the
\* codec's outcome, the type the call started from and the trailer
\* WriteRawBlock gives it.
WriteBlockCompression(w, raw_size, codec) ==
    LET c == block_contents(raw_size, w.compression_type, codec) IN
    [w EXCEPT !.blocks = Append(@, [raw_size |-> raw_size, codec |-> codec,
                                    attempted |-> w.compression_type,
                                    stored |-> c,
                                    trailer |-> BlockTrailer(
                                                    Bytes(c.compressed, c.size),
                                                    c.type)])]

\* The meta block kinds Finish hands to WriteRawBlock itself.
MetaKinds == {"colmeta", "props", "dict", "metaindex"}

\* Finish, lines 575, 615, 620 and 634: WriteRawBlock(contents,
\* kNoCompression, handle) on a meta block of raw_size bytes.
WriteMetaBlock(w, kind, raw_size) ==
    [w EXCEPT !.meta_blocks =
        Append(@, [kind |-> kind, raw_size |-> raw_size,
                   stored |-> [size |-> raw_size, compressed |-> FALSE,
                               type |-> kNoCompression],
                   trailer |-> BlockTrailer(Bytes(FALSE, raw_size),
                                            kNoCompression)])]

InitCompress ==
    /\ rep = [b \in Builders |-> InitRep(b)]
    /\ faults = 0
    /\ adds = <<>>
    /\ flushes = 0
    /\ last = [op |-> "none", ok_before |-> TRUE, ret |-> OK,
               append_failed |-> FALSE, log |-> <<>>]
    /\ finish_called = FALSE
    /\ assert_failed = {}
    /\ \E type \in CompressionTypes :
           wb = [compression_type |-> type, blocks |-> <<>>,
                 meta_blocks |-> <<>>]
    /\ it = NoIterator
    /\ fi = NoFileIter
    /\ cj = NoCompaction

\* Finish writes a meta block.
CallWriteMetaBlock ==
    /\ Len(wb.blocks) + Len(wb.meta_blocks) < MaxBlocks
    /\ \E kind \in MetaKinds, raw_size \in {16, kCompressionSizeLimit} :
          wb' = WriteMetaBlock(wb, kind, raw_size)
    /\ UNCHANGED <<table_vars, it, fi, cj>>

\* A builder writes a block; the codec, where one is called, succeeds or
\* fails and produces an output of some size.
CallWriteBlock ==
    /\ Len(wb.blocks) + Len(wb.meta_blocks) < MaxBlocks
    /\ \E raw_size \in RawSizes, okc \in BOOLEAN :
          \E size \in CompressedSizes(raw_size) :
              wb' = WriteBlockCompression(
                        wb, raw_size,
                        IF wb.compression_type \in CodecTypes
                        THEN [ok |-> okc, size |-> size] ELSE NoCodec)
    /\ UNCHANGED <<table_vars, it, fi, cj>>

NextCompress == CallWriteBlock \/ CallWriteMetaBlock

SpecCompress == InitCompress /\ [][NextCompress]_vars

\* -------------------------------------- the users of a two-level iterator
MaxIterKey == 4
MaxIterBlocks == 3

IterKeys == 1..MaxIterKey

\* The elements of a set of numbers in increasing order.
RECURSIVE Sorted(_)
Sorted(S) ==
    IF S = {} THEN <<>>
    ELSE LET m == CHOOSE x \in S : \A y \in S : x <= y
         IN  <<m>> \o Sorted(S \ {m})

\* The tables a builder can leave behind: increasing separators, each
\* block holding the keys present above the separator before it and up to
\* its own, a block possibly without any entry to read. The value stored
\* under a key tells the key.
TableOf(seps, present) ==
    LET q == Sorted(seps) IN
    [j \in 1..Len(q) |->
        [sep |-> q[j],
         entries |->
             LET ks == Sorted({k \in present :
                                  /\ k <= q[j]
                                  /\ j > 1 => k > q[j - 1]})
             IN  [p \in 1..Len(ks) |-> [key |-> ks[p], value |-> 10 * ks[p]]]]]

Tables ==
    {TableOf(seps, present) :
        seps \in {S \in SUBSET IterKeys : Cardinality(S) <= MaxIterBlocks},
        present \in SUBSET IterKeys}

InitIter ==
    /\ rep = [b \in Builders |-> InitRep(b)]
    /\ faults = 0
    /\ adds = <<>>
    /\ flushes = 0
    /\ last = [op |-> "none", ok_before |-> TRUE, ret |-> OK,
               append_failed |-> FALSE, log |-> <<>>]
    /\ finish_called = FALSE
    /\ assert_failed = {}
    /\ wb = [compression_type |-> compression_type, blocks |-> <<>>,
            meta_blocks |-> <<>>]
    /\ \E tbl \in Tables : it = [NoIterator EXCEPT !.table = tbl]
    /\ fi = NoFileIter
    /\ cj = NoCompaction

\* The entries a scan has been positioned at, with the one it is at now.
Scanned(i, scan) ==
    IF TwoLevelValid(i) THEN Append(scan, TwoLevelEntry(i)) ELSE scan

IterSeekToFirst ==
    /\ \E i \in {TwoLevelSeekToFirst(it)} :
          it' = [i EXCEPT !.op = "SeekToFirst", !.target = 0,
                          !.scan = Scanned(i, <<>>)]
    /\ UNCHANGED <<table_vars, wb, fi, cj>>

\* Next on a valid iterator; the scan goes on if it began at SeekToFirst.
IterNext ==
    /\ TwoLevelValid(it)
    /\ \E i \in {TwoLevelNext(it)} :
          it' = [i EXCEPT !.op = IF it.op \in {"SeekToFirst", "ScanNext"}
                                THEN "ScanNext" ELSE "Next",
                          !.scan = Scanned(i, it.scan)]
    /\ UNCHANGED <<table_vars, wb, fi, cj>>

IterSeek ==
    /\ \E k \in 1..(MaxIterKey + 1) :
          \E i \in {TwoLevelSeek(it, k)} :
              it' = [i EXCEPT !.op = "Seek", !.target = k,
                              !.scan = Scanned(i, <<>>)]
    /\ UNCHANGED <<table_vars, wb, fi, cj>>

NextIter == IterSeekToFirst \/ IterNext \/ IterSeek

SpecIter == InitIter /\ [][NextIter]_vars

\* ---------------------------------------------- the users of a FileIter
MaxChildren == 2
MaxOverrun == 2

\* A child file: whether its iterator is valid, and the result of its
\* projection hooks.
Children == [valid : BOOLEAN, status : {OK, "Corruption"}]

RECURSIVE SeqsUpTo(_, _)
SeqsUpTo(S, n) ==
    IF n = 0 THEN {<<>>}
    ELSE SeqsUpTo(S, n - 1)
         \cup {Append(q, x) : q \in {r \in SeqsUpTo(S, n - 1) : Len(r) = n - 1},
                               x \in S}

InitFileIter ==
    /\ rep = [b \in Builders |-> InitRep(b)]
    /\ faults = 0
    /\ adds = <<>>
    /\ flushes = 0
    /\ last = [op |-> "none", ok_before |-> TRUE, ret |-> OK,
               append_failed |-> FALSE, log |-> <<>>]
    /\ finish_called = FALSE
    /\ assert_failed = {}
    /\ wb = [compression_type |-> compression_type, blocks |-> <<>>,
            meta_blocks |-> <<>>]
    /\ it = NoIterator
    /\ cj = NoCompaction
    /\ \E children \in SeqsUpTo(Children, MaxChildren) :
           fi = [NoFileIter EXCEPT !.iter = FileIterOf(children)]

\* The caller's calls. A traversal of the files is the loop
\* SeekToFirst(); while (Valid()) { use the file; Next(); }: pc tells
\* where that loop stands ("test" before Valid, "body" after a Valid that
\* returned true, "done" after one that returned false), visited the
\* cursor at every pass through its body; nexts counts the calls of Next
\* since the last SeekToFirst.
CallSeekToFirst ==
    /\ fi' = [fi EXCEPT !.iter = FileIterSeekToFirst(fi.iter),
                        !.op = "SeekToFirst", !.ret = FALSE, !.child = OK,
                        !.seeked = TRUE, !.nexts = 0,
                        !.pc = "test", !.visited = <<>>]
    /\ UNCHANGED <<table_vars, wb, it, cj>>

CallValid ==
    /\ \E ub \in BOOLEAN :
          \E r \in {FileIterValid(fi.iter, ub)} :
              fi' = [fi EXCEPT !.op = "Valid", !.ret = r.ret, !.child = OK,
                              !.oob = @ \/ r.oob,
                              !.pc = IF fi.pc # "test" THEN @
                                     ELSE IF r.ret THEN "body" ELSE "done",
                              !.visited = IF fi.pc = "test" /\ r.ret
                                          THEN Append(@, fi.iter.cur_) ELSE @]
    /\ UNCHANGED <<table_vars, wb, it, cj>>

CallNext ==
    /\ fi.iter.cur_ < Len(fi.iter.children) + MaxOverrun
    /\ fi' = [fi EXCEPT !.iter = FileIterNext(fi.iter),
                        !.op = "Next", !.ret = FALSE, !.child = OK,
                        !.nexts = IF fi.seeked THEN @ + 1 ELSE @,
                        !.pc = IF fi.pc = "body" THEN "test" ELSE "idle"]
    /\ UNCHANGED <<table_vars, wb, it, cj>>

CallGetMinMax ==
    /\ \E r \in {FileIterGetMinMax(fi.iter)} :
          fi' = [fi EXCEPT !.op = "GetMinMax", !.ret = r.ret,
                          !.child = r.child, !.oob = @ \/ r.oob]
    /\ UNCHANGED <<table_vars, wb, it, cj>>

CallRangeQuery ==
    /\ \E r \in {FileIterRangeQuery(fi.iter)} :
          fi' = [fi EXCEPT !.op = "RangeQuery", !.ret = r.ret,
                          !.child = r.child, !.oob = @ \/ r.oob]
    /\ UNCHANGED <<table_vars, wb, it, cj>>

NextFileIter ==
    CallSeekToFirst \/ CallValid \/ CallNext \/ CallGetMinMax \/ CallRangeQuery

SpecFileIter == InitFileIter /\ [][NextFileIter]_vars

\* ------------------------------------------------ the compaction job
MaxUserKey == 2
MaxSeq == 3

\* The value written with sequence number seq.
ValueAt(seq) == <<"val", "val2", "val3", "val4", "val5">>[seq]

\* The input files' entries: at every sequence number at most one write, a
\* value or a deletion of one user key.
Writes ==
    [1..MaxSeq -> {<<>>} \cup ((1..MaxUserKey) \X {kTypeValue, kTypeDeletion})]

EntriesOf(w) ==
    {KeyStr(w[s][1], s, w[s][2], IF w[s][2] = kTypeValue THEN ValueAt(s) ELSE "") :
        s \in {x \in 1..MaxSeq : w[x] # <<>>}}

\* A file below the output level, left by an earlier compaction.
DeeperFiles == {{}, {KeyStr(1, 0, kTypeValue, "val")}}

Compactions ==
    {[input |-> EntriesOf(w), deeper |-> d,
      last_sequence |-> SetLastSequence(MaxSeq)] :
        w \in {x \in Writes : EntriesOf(x) # {}}, d \in DeeperFiles}
    \cup {[input |-> T.input, deeper |-> T.deeper,
            last_sequence |-> T.last_sequence] : T \in Tests}

InitCompaction ==
    /\ rep = [b \in Builders |-> InitRep(b)]
    /\ faults = 0
    /\ adds = <<>>
    /\ flushes = 0
    /\ last = [op |-> "none", ok_before |-> TRUE, ret |-> OK,
               append_failed |-> FALSE, log |-> <<>>]
    /\ finish_called = FALSE
    /\ assert_failed = {}
    /\ wb = [compression_type |-> compression_type, blocks |-> <<>>,
            meta_blocks |-> <<>>]
    /\ it = NoIterator
    /\ fi = NoFileIter
    /\ \E c \in Compactions :
           cj = [NoCompaction EXCEPT !.input = c.input, !.deeper = c.deeper,
                                     !.last_sequence = c.last_sequence]

\* CompactionJob::Run, then what RunCompaction asserts of the job's
\* statistics and of the latest file.
RunCompaction ==
    /\ ~cj.ran
    /\ \E out \in {Compact(cj)} :
          cj' = [cj EXCEPT !.ran = TRUE, !.output = out,
                          !.num_output_files = IF out = {} THEN 0 ELSE 1]
    /\ UNCHANGED <<table_vars, wb, it, fi>>

NextCompaction == RunCompaction

SpecCompaction == InitCompaction /\ [][NextCompaction]_vars

\* ------------------------------------------------------------ reader
Corruption == "Corruption"
NotFound == "NotFound"

\* Reading the block a handle names: the body must lie at that offset with
\* that size and be followed by its trailer.
ReadBlock(f, h) ==
    LET hits == {j \in 1..(Len(f) - 1) :
                    /\ f[j].what = "body" /\ f[j + 1].what = "trailer"
                    /\ f[j].at = h.offset /\ f[j].bytes = h.size}
    IN  IF hits = {} THEN [status |-> Corruption, data |-> <<>>]
        ELSE [status |-> OK, data |-> f[CHOOSE j \in hits : TRUE].data]

\* Opening one column file: the footer at the tail, then the metaindex and
\* the index block it names.
OpenFile(f) ==
    IF f = <<>> \/ f[Len(f)].what # "footer"
    THEN [status |-> Corruption, index |-> <<>>, meta_index |-> <<>>]
    ELSE LET foot == f[Len(f)].data
             mi == ReadBlock(f, foot.metaindex_handle)
             ix == ReadBlock(f, foot.index_handle)
         IN  [status |-> IF mi.status = OK /\ ix.status = OK THEN OK
                         ELSE Corruption,
              index |-> ix.data, meta_index |-> mi.data]

\* ColumnTableReader::Open on the files the builders wrote: the main file,
\* its column-meta block, then every subcolumn file, validated against the
\* size recorded for it.
Open(reps) ==
    LET m == OpenFile(reps[Main].file)
        named == {j \in 1..Len(m.meta_index) :
                     m.meta_index[j].name = "vidardb.column"}
        cm == IF m.status # OK \/ named = {}
              THEN [status |-> Corruption, data |-> <<>>]
              ELSE ReadBlock(reps[Main].file,
                             m.meta_index[CHOOSE j \in named : TRUE].handle)
        n == IF cm.status = OK THEN Len(cm.data.sizes) ELSE 0
        subs == [i \in 1..n |-> OpenFile(reps[i].file)]
    IN  [status |-> IF /\ cm.status = OK
                       /\ \A i \in 1..n :
                             /\ subs[i].status = OK
                             /\ FileLength(reps[i].file) = cm.data.sizes[i]
                    THEN OK ELSE Corruption,
         main |-> m, subs |-> subs]

\* The value stored for key in the column file of builder b: the first
\* index entry whose separator is >= key names the block to search.
Lookup(b, f, index, key) ==
    LET at == {j \in 1..Len(index) : Compare(b, index[j].key, key) >= 0}
        j0 == CHOOSE j \in at : \A k \in at : j <= k
        blk == ReadBlock(f, index[j0].handle)
        hit == {e \in 1..Len(blk.data) : blk.data[e].key = key}
    IN  IF at = {} THEN [status |-> NotFound, value |-> <<>>]
        ELSE IF blk.status # OK THEN [status |-> Corruption, value |-> <<>>]
        ELSE IF hit = {} THEN [status |-> NotFound, value |-> <<>>]
        ELSE [status |-> OK, value |-> blk.data[CHOOSE e \in hit : TRUE].value]

\* ColumnTableReader::Get with read_options.columns = columns: the row
\* position from the main file, then the value of every requested column
\* at that position, stitched.
Get(reps, key, columns) ==
    LET t == Open(reps)
        p == Lookup(Main, reps[Main].file, t.main.index, key)
        c == [j \in 1..Len(columns) |->
                 Lookup(columns[j], reps[columns[j]].file,
                        t.subs[columns[j]].index, p.value)]
    IN  IF t.status # OK THEN [status |-> Corruption, value |-> <<>>]
        ELSE IF p.status # OK THEN [status |-> p.status, value |-> <<>>]
        ELSE IF \E j \in 1..Len(columns) : columns[j] > Len(t.subs)
        THEN [status |-> InvalidArgument, value |-> <<>>]
        ELSE IF \E j \in 1..Len(columns) : c[j].status # OK
        THEN [status |-> Corruption, value |-> <<>>]
        ELSE [status |-> OK,
              value |-> Stitch([j \in 1..Len(columns) |-> c[j].value])]

\* ------------------------------------------------------------ claims
Created == {Main} \cup rep[Main].builders

\* The data entries builder b holds: those of the data blocks appended to
\* its file, in file order, then those of its pending data block.
RECURSIVE FileEntries(_)
FileEntries(f) ==
    IF f = <<>> THEN <<>>
    ELSE (IF f[1].what = "body" /\ f[1].kind = "data" THEN f[1].data ELSE <<>>)
         \o FileEntries(Tail(f))

StoredEntries(b) == FileEntries(rep[b].file) \o rep[b].data_block

\* C1: in every state reachable through Add calls, every created subcolumn
\* builder has as many entries as the main builder, and the k-th entry of
\* every subcolumn is keyed by the row position the k-th main entry stores.
C1_ColumnAlignment ==
    \A i \in rep[Main].builders :
        /\ rep[i].num_entries = rep[Main].num_entries
        /\ Len(rep[i].added) = Len(rep[Main].added)
        /\ \A k \in 1..Len(rep[i].added) :
               rep[i].added[k].key = rep[Main].added[k].value

\* C2: the k-th accepted Add (from 0) stores the 8-byte big-endian
\* encoding of k as the main value of its key, so the positions are
\* 0, 1, 2, ... without gap or repeat, and NumEntries() is the number of
\* accepted Adds.
C2_RowPosition ==
    /\ NumEntries(rep) = Len(adds)
    /\ Len(rep[Main].added) = Len(adds)
    /\ \A k \in 1..Len(adds) :
           /\ rep[Main].added[k].key = adds[k].key
           /\ Len(rep[Main].added[k].value) = 8
           /\ DecodeFixed64BigEndian(rep[Main].added[k].value) = k - 1
    /\ faults = 0 => StoredEntries(Main) = rep[Main].added

C2_Witness ==
    /\ last.op = "Add"
    /\ Len(adds) = MaxAdds
    /\ NumEntries(rep) = MaxAdds
    /\ Len(rep[Main].file) > 0

\* The column sets a read asks for: every single column, and all of them.
ColumnChoices == {<<c>> : c \in Subs} \cup {[j \in Subs |-> j]}

\* C3: after Adds of N-column values under increasing keys and a Finish
\* that returned OK, Get(key, columns) returns the stitched columns of the
\* tuple added for that key.
C3_RoundTrip ==
    (last.op = "Finish" /\ last.ret = OK /\ flushes = 0) =>
        \A k \in 1..Len(adds) :
            Len(Split(adds[k].value)) = column_count =>
                \A C \in ColumnChoices :
                    Get(rep, adds[k].key, C) =
                        [status |-> OK,
                         value |-> Stitch([j \in 1..Len(C) |->
                                              Split(adds[k].value)[C[j]]])]

\* C4: once status() is not OK, an Add or a Flush changes nothing:
\* NumEntries, FileSize, FileSizeTotal, the data blocks, the index entries
\* and the files of all builders stay as they are, and so does status().
C4_StickyFailure ==
    [][(last'.op \in {"Add", "Flush"} /\ status(rep, Main) # OK) =>
          /\ NumEntries(rep') = NumEntries(rep)
          /\ FileSize(rep') = FileSize(rep)
          /\ FileSizeTotal(rep') = FileSizeTotal(rep)
          /\ status(rep', Main) = status(rep, Main)
          /\ \A b \in Builders :
                /\ rep'[b].data_block = rep[b].data_block
                /\ rep'[b].index_builder = rep[b].index_builder
                /\ rep'[b].file = rep[b].file
                /\ rep'[b].num_entries = rep[b].num_entries]_vars

C4_Witness ==
    /\ last.op \in {"Add", "Flush"}
    /\ ~last.ok_before
    /\ status(rep, Main) = IOError
    /\ rep[Main].data_block # <<>>

\* C5: if an append made during Finish fails, Finish returns a non-OK
\* status.
C5_FinishFirstFailure ==
    (last.op = "Finish" /\ last.append_failed) => last.ret # OK

\* C6: when Finish returns, with OK or an error, the main builder and
\* every subcolumn builder are closed.
C6_FinishCloses ==
    last.op = "Finish" => \A b \in Created : rep[b].closed

\* C7: Abandon, called in a state in which the main builder is not closed,
\* violates no assertion and leaves all builders closed.
C7_AbandonInfallible ==
    last.op = "Abandon" =>
        /\ assert_failed = {}
        /\ \A b \in Created : rep[b].closed

\* C8: Abandon appends nothing to any file and leaves FileSize,
\* FileSizeTotal, NumEntries and status() as they are; only the closed
\* flags change.
C8_AbandonWritesNothing ==
    [][last'.op = "Abandon" =>
          /\ \A b \in Builders :
                /\ rep'[b].file = rep[b].file
                /\ [rep'[b] EXCEPT !.closed = rep[b].closed] = rep[b]
          /\ FileSize(rep') = FileSize(rep)
          /\ FileSizeTotal(rep') = FileSizeTotal(rep)
          /\ NumEntries(rep') = NumEntries(rep)
          /\ status(rep', Main) = status(rep, Main)
          /\ faults' = faults]_vars

C8_Witness ==
    /\ last.op = "Abandon"
    /\ rep[Main].data_block # <<>>
    /\ rep[Main].file # <<>>
    /\ \A b \in Created : rep[b].closed

\* The handles of the data blocks of builder b's file, in file order.
RECURSIVE DataHandles(_, _)
DataHandles(f, j) ==
    IF j >= Len(f) THEN <<>>
    ELSE (IF /\ f[j].what = "body" /\ f[j].kind = "data"
             /\ f[j + 1].what = "trailer"
          THEN <<[offset |-> f[j].at, size |-> f[j].bytes]>> ELSE <<>>)
         \o DataHandles(f, j + 1)

\* C9: after Adds and public Flush calls and a Finish that returned OK,
\* the main index holds one entry per data block of the main file, in
\* file order, with that block's handle.
C9_IndexCompleteness ==
    (last.op = "Finish" /\ last.ret = OK) =>
        /\ Len(rep[Main].index_builder) = rep[Main].num_data_blocks
        /\ [j \in 1..Len(rep[Main].index_builder) |->
               rep[Main].index_builder[j].handle]
           = DataHandles(rep[Main].file, 1)

\* The entries of the data blocks of builder b, read in index order.
RECURSIVE IndexedEntries(_, _)
IndexedEntries(b, j) ==
    IF j > Len(rep[b].index_builder) THEN <<>>
    ELSE LET blk == ReadBlock(rep[b].file, rep[b].index_builder[j].handle)
         IN  (IF blk.status = OK THEN blk.data ELSE <<Corruption>>)
             \o IndexedEntries(b, j + 1)

\* The entries builder b is to hold for the accepted Adds.
ExpectedEntries(b) ==
    [k \in 1..Len(adds) |->
        IF b = Main
        THEN [key |-> adds[k].key, value |-> PutFixed64BigEndian(k - 1)]
        ELSE [key |-> PutFixed64BigEndian(k - 1),
              value |-> IF Split(adds[k].value) = <<>> THEN <<>>
                        ELSE Split(adds[k].value)[b]]]

\* C10: whatever the flush policies decided at each Add, the data blocks
\* of a finished file, concatenated in index order, are the entries
\* (key_i, i) in the main file and (i, column value) in a subcolumn file.
C10_BlockBoundaryTransparency ==
    (last.op = "Finish" /\ last.ret = OK /\ flushes = 0) =>
        \A b \in Created : IndexedEntries(b, 1) = ExpectedEntries(b)

C10_Witness ==
    /\ last.op = "Finish" /\ last.ret = OK /\ flushes = 0
    /\ Len(adds) = MaxAdds
    /\ Len(rep[Main].index_builder) = 2
    /\ Len(rep[1].index_builder) = 1
    /\ Len(rep[column_count].index_builder) = 2

\* The entries added to builder b after the entry with key a.
LaterAdded(b, a) ==
    {k \in 1..Len(rep[b].added) : Compare(b, rep[b].added[k].key, a) > 0}

\* C11: every index entry names a data block of the file and was built
\* from the last key a of that block and the first key added after it: its
\* key is FindShortestSeparator(a, next) when a key follows the block and
\* FindShortSuccessor(a) when none does; it is >= every key of its block
\* and < every key added after the block, and the index keys increase
\* strictly.
C11_SeparatorProperty ==
    \A b \in Created : \A j \in 1..Len(rep[b].index_builder) :
        LET e == rep[b].index_builder[j]
            blk == ReadBlock(rep[b].file, e.handle)
            a == blk.data[Len(blk.data)].key
            later == LaterAdded(b, a)
            next == CHOOSE k \in later : \A m \in later : k <= m
        IN  /\ blk.status = OK
            /\ blk.data # <<>>
            /\ \A k \in 1..Len(blk.data) :
                   Compare(b, blk.data[k].key, e.key) <= 0
            /\ \A k \in later : Compare(b, e.key, rep[b].added[k].key) < 0
            /\ e.key = IF later = {} THEN FindShortSuccessor(b, a)
                       ELSE FindShortestSeparator(b, a, rep[b].added[next].key)
            /\ j > 1 => Compare(b, rep[b].index_builder[j - 1].key, e.key) < 0

C11_Witness ==
    /\ last.op = "Finish" /\ last.ret = OK
    /\ Len(rep[Main].index_builder) = 2
    /\ rep[Main].index_builder[1].key = 2
    /\ rep[Main].index_builder[2].key = 4
    /\ Len(rep[1].index_builder) = 2

\* The column-meta block of a main file, found as the reader finds it:
\* footer, metaindex, the entry "vidardb.column", the block it names.
ReadColumnMeta(f) ==
    LET m == OpenFile(f)
        named == {j \in 1..Len(m.meta_index) :
                     m.meta_index[j].name = "vidardb.column"}
    IN  IF m.status # OK \/ named = {}
        THEN [status |-> Corruption, data |-> <<>>]
        ELSE ReadBlock(f, m.meta_index[CHOOSE j \in named : TRUE].handle)

RECURSIVE SumSeq(_)
SumSeq(q) == IF q = <<>> THEN 0 ELSE q[1] + SumSeq(Tail(q))

\* C12: after a Finish that returned OK on a table with at least one Add,
\* the column-meta block of the main file lists column_count sizes, the
\* size listed for column i is the final size of the file of subcolumn i
\* (its offset after its footer), and the sizes sum to
\* FileSizeTotal() - FileSize().
C12_ColumnMetaSizes ==
    (last.op = "Finish" /\ last.ret = OK /\ adds # <<>>) =>
        LET cm == ReadColumnMeta(rep[Main].file) IN
        /\ cm.status = OK
        /\ cm.data.main
        /\ Len(cm.data.sizes) = column_count
        /\ \A i \in Subs :
               /\ cm.data.sizes[i] = rep[i].offset
               /\ cm.data.sizes[i] = FileLength(rep[i].file)
               /\ rep[i].file[Len(rep[i].file)].what = "footer"
        /\ SumSeq(cm.data.sizes) = FileSizeTotal(rep) - FileSize(rep)

\* The kinds of the blocks and footers the last call appended to the file
\* of builder b, in the order it appended them.
RECURSIVE KindsAppended(_, _)
KindsAppended(log, b) ==
    IF log = <<>> THEN <<>>
    ELSE (IF log[1].b = b /\ log[1].what \in {"body", "footer"}
          THEN <<log[1].kind>> ELSE <<>>)
         \o KindsAppended(Tail(log), b)

\* The appends among the file operations of the last call.
Appends == {j \in 1..Len(last.log) :
               last.log[j].what \in {"body", "trailer", "footer"}}

MetaOrder ==
    <<"colmeta", "props">>
    \o (IF compression_dict # <<>> THEN <<"dict">> ELSE <<>>)
    \o <<"metaindex", "index", "footer">>

\* C13: in a Finish that returned OK, every file receives, after its last
\* data block, the column-meta block, the properties block, the dictionary
\* block if one is set, the metaindex block, the index block and the
\* footer, in this order; every append to a subcolumn file comes before
\* the first meta block of the main file, and the main footer is the last
\* append.
C13_FinishOrdering ==
    (last.op = "Finish" /\ last.ret = OK) =>
        /\ \A b \in Created :
               KindsAppended(last.log, b) \in {MetaOrder, <<"data">> \o MetaOrder}
        /\ \A i \in Appends, j \in Appends :
               (/\ last.log[i].b \in Subs
                /\ last.log[j].b = Main /\ last.log[j].kind # "data") => i < j
        /\ \A j \in Appends :
               (\A i \in Appends : i <= j) =>
                   last.log[j].b = Main /\ last.log[j].what = "footer"

\* The positions in the last call's file operations of operation what on
\* the file of builder b.
LogAt(b, what) ==
    {j \in 1..Len(last.log) : last.log[j].b = b /\ last.log[j].what = what}

\* C14: when Finish returns OK, the file of every subcolumn builder has
\* been synced once and closed once, the Sync before the Close and both
\* after the file's footer, and the main file has been neither synced nor
\* closed.
C14_SyncCloseAsymmetry ==
    (last.op = "Finish" /\ last.ret = OK) =>
        /\ \A i \in rep[Main].builders :
               /\ rep[i].synced = 1 /\ rep[i].file_closed = 1
               /\ Cardinality(LogAt(i, "Sync")) = 1
               /\ Cardinality(LogAt(i, "Close")) = 1
               /\ LogAt(i, "footer") # {}
               /\ \A f \in LogAt(i, "footer"), y \in LogAt(i, "Sync"),
                     c \in LogAt(i, "Close") : f < y /\ y < c
        /\ rep[Main].synced = 0 /\ rep[Main].file_closed = 0
        /\ LogAt(Main, "Sync") = {} /\ LogAt(Main, "Close") = {}

C14_Witness ==
    /\ last.op = "Finish" /\ last.ret = OK
    /\ rep[Main].builders = Subs
    /\ \A i \in Subs : rep[i].synced = 1 /\ rep[i].file_closed = 1
    /\ rep[Main].file[Len(rep[Main].file)].what = "footer"

\* C15: an Add that finds the builder ok and whose value splits into k
\* strings, k # 0 and k # column_count, leaves the status InvalidArgument
\* and adds no entry to any subcolumn builder; an Add made while the
\* status is InvalidArgument changes nothing.
C15_ArityMismatch ==
    [][/\ (/\ last'.op = "Add"
           /\ Len(adds') = Len(adds) + 1
           /\ Len(Split(adds'[Len(adds')].value)) \notin {0, column_count}) =>
              /\ status(rep', Main) = InvalidArgument
              /\ \A i \in Subs :
                     /\ rep'[i].added = rep[i].added
                     /\ rep'[i].num_entries = rep[i].num_entries
                     /\ rep'[i].data_block = rep[i].data_block
                     /\ rep'[i].file = rep[i].file
       /\ (last'.op = "Add" /\ status(rep, Main) = InvalidArgument) =>
              /\ rep' = rep
              /\ adds' = adds]_vars

C15_Witness ==
    /\ last.op = "Add" /\ ~last.ok_before
    /\ status(rep, Main) = InvalidArgument
    /\ rep[Main].builders = Subs
    /\ Len(adds) = 1
    /\ Len(Split(adds[1].value)) = column_count + 1
    /\ rep[Main].num_entries = 1
    /\ \A i \in Subs : rep[i].num_entries = 0

\* C16: an Add that finds the builder ok, whose value splits into zero
\* strings and during which no I/O fails, appends to every subcolumn
\* builder one entry with the empty string as value under the row position
\* stored with the main entry, leaves the status OK and every subcolumn's
\* raw_value_size as it was.
C16_EmptySplit ==
    [][(/\ last'.op = "Add"
        /\ Len(adds') = Len(adds) + 1
        /\ Split(adds'[Len(adds')].value) = <<>>
        /\ faults' = faults) =>
           /\ status(rep', Main) = OK
           /\ rep'[Main].builders = Subs
           /\ \A i \in Subs :
                  /\ rep'[i].added =
                         Append(rep[i].added,
                                [key |-> PutFixed64BigEndian(rep[Main].num_entries),
                                 value |-> <<>>])
                  /\ rep'[Main].added[Len(rep'[Main].added)].value =
                         rep'[i].added[Len(rep'[i].added)].key
                  /\ rep'[i].num_entries = rep[i].num_entries + 1
                  /\ rep'[i].raw_value_size = rep[i].raw_value_size
                  /\ rep'[i].data_block # <<>>
                  /\ rep'[i].data_block[Len(rep'[i].data_block)].value = <<>>]_vars

C16_Witness ==
    /\ last.op = "Add" /\ last.ok_before
    /\ Len(adds) = MaxAdds
    /\ adds[Len(adds)].value = <<>>
    /\ adds[1].value # <<>>
    /\ status(rep, Main) = OK
    /\ \A i \in Subs :
           /\ rep[i].num_entries = MaxAdds
           /\ rep[i].added[MaxAdds].value = <<>>
    /\ rep[1].file # <<>>
    /\ rep[1].raw_value_size > 0

\* C17: for every block handed to the compressor (raw size below the
\* limit), the compressed output is stored under the builder's type iff
\* the codec succeeded and its output is smaller than
\* raw_size - floor(raw_size / 8); otherwise the raw bytes are stored
\* under kNoCompression. Every block starts from the builder's compression
\* type, whatever the blocks before it fell back to.
C17_CompressionGate ==
    \A j \in 1..Len(wb.blocks) :
        LET blk == wb.blocks[j]
            good == /\ blk.codec.ok
                    /\ blk.codec.size
                           < blk.raw_size - (blk.raw_size \div 8)
        IN  /\ blk.attempted = wb.compression_type
            /\ blk.raw_size < kCompressionSizeLimit =>
                   IF good
                   THEN blk.stored = [size |-> blk.codec.size,
                                      compressed |-> TRUE,
                                      type |-> blk.attempted]
                   ELSE blk.stored = [size |-> blk.raw_size,
                                      compressed |-> FALSE,
                                      type |-> kNoCompression]

C17_Witness ==
    /\ Len(wb.blocks) = 2
    /\ wb.compression_type = "kZlibCompression"
    /\ wb.blocks[1].raw_size = 16
    /\ wb.blocks[1].codec = [ok |-> TRUE, size |-> 14]
    /\ wb.blocks[1].stored.type = kNoCompression
    /\ wb.blocks[2].raw_size = 16
    /\ wb.blocks[2].codec = [ok |-> TRUE, size |-> 13]
    /\ wb.blocks[2].stored =
           [size |-> 13, compressed |-> TRUE, type |-> "kZlibCompression"]

\* C18: exactly the blocks with a raw size above kCompressionSizeLimit are
\* stored raw under kNoCompression whatever the codec would do; a block of
\* a raw size up to the limit is stored as the compressor decides.
C18_CompressionSizeLimit ==
    \A j \in 1..Len(wb.blocks) :
        LET blk == wb.blocks[j] IN
        IF blk.raw_size > kCompressionSizeLimit
        THEN blk.stored = [size |-> blk.raw_size, compressed |-> FALSE,
                           type |-> kNoCompression]
        ELSE blk.stored.compressed =
                 (/\ blk.codec.ok
                  /\ blk.codec.size < blk.raw_size - (blk.raw_size \div 8))

\* The entries of all blocks of a table, in index order.
RECURSIVE Concatenation(_)
Concatenation(tbl) ==
    IF tbl = <<>> THEN <<>>
    ELSE tbl[1].entries \o Concatenation(Tail(tbl))

\* C19: the entries SeekToFirst and the Nexts after it are positioned at
\* are, in order, the first entries of the concatenation of the blocks the
\* index names, and all of them once the iterator is invalid.
C19_ForwardScan ==
    it.op \in {"SeekToFirst", "ScanNext"} =>
        LET all == Concatenation(it.table) IN
        /\ Len(it.scan) <= Len(all)
        /\ it.scan = SubSeq(all, 1, Len(it.scan))
        /\ TwoLevelValid(it) => it.scan # <<>>
        /\ ~TwoLevelValid(it) => it.scan = all

C19_Witness ==
    /\ it.op = "ScanNext"
    /\ ~TwoLevelValid(it)
    /\ Len(it.table) = 3
    /\ it.table[2].entries = <<>>
    /\ Len(it.table[1].entries) = 2
    /\ Len(it.scan) = 3

\* C20: after Seek(k) the iterator is at the first entry of the table
\* with a key >= k, in the block that holds it, and it is invalid exactly
\* if the table has no such entry.
C20_Seek ==
    it.op = "Seek" =>
        LET all == Concatenation(it.table)
            ge == {p \in 1..Len(all) : Compare(Main, all[p].key, it.target) >= 0}
        IN  /\ TwoLevelValid(it) <=> ge # {}
            /\ TwoLevelValid(it) =>
                   /\ TwoLevelEntry(it) =
                          all[CHOOSE p \in ge : \A q \in ge : p <= q]
                   /\ it.first = it.second.block
                   /\ Compare(Main, it.table[it.first].sep, it.target) >= 0

C20_Witness ==
    /\ it.op = "Seek"
    /\ it.target = 2
    /\ TwoLevelValid(it)
    /\ TwoLevelEntry(it).key = 4
    /\ it.first = 3
    /\ it.table[1].entries # <<>>
    /\ it.table[1].sep = 2
    /\ it.table[2].entries = <<>>

\* C21: Valid() returns false without children and else what the child at
\* the cursor returns; SeekToFirst() sets the cursor to 0, and leaves it
\* without children; Next() adds one to the cursor; so in a traversal the
\* k-th pass through the loop body, k < n, is at file k.
C21_FileIterCursor ==
    [][/\ (fi'.op = "Valid" /\ fi.iter.children = <<>>) => ~fi'.ret
       /\ (fi'.op = "Valid" /\ InRange(fi.iter)) =>
              /\ fi'.ret = fi.iter.children[fi.iter.cur_ + 1].valid
              /\ fi'.iter = fi.iter
       /\ fi'.op = "SeekToFirst" =>
              fi'.iter.cur_ = IF fi.iter.children = <<>>
                              THEN fi.iter.cur_ ELSE 0
       /\ fi'.op = "Next" => fi'.iter.cur_ = fi.iter.cur_ + 1
       /\ (fi'.seeked /\ fi'.nexts < Len(fi'.iter.children)) =>
              fi'.iter.cur_ = fi'.nexts
       /\ \A k \in 1..Len(fi'.visited) :
              k <= Len(fi'.iter.children) => fi'.visited[k] = k - 1]_vars

C21_Witness ==
    /\ fi.op = "Valid" /\ fi.ret
    /\ Len(fi.iter.children) = MaxChildren
    /\ fi.iter.cur_ = MaxChildren - 1
    /\ Len(fi.visited) = MaxChildren
    /\ fi.seeked /\ fi.nexts = MaxChildren - 1
    /\ ~fi.oob

\* C22: FileSize() is the main builder's offset and FileSizeTotal() is
\* FileSize() plus the offsets of the created subcolumn builders, so it is
\* at least FileSize() and equal to it before the first Add; no Add, Flush,
\* Finish or Abandon decreases either.
RECURSIVE OffsetsOf(_)
OffsetsOf(S) ==
    IF S = {} THEN 0
    ELSE LET b == CHOOSE x \in S : TRUE
         IN  rep[b].offset + OffsetsOf(S \ {b})

C22_SizeObservers ==
    /\ [](/\ FileSize(rep) = rep[Main].offset
          /\ FileSizeTotal(rep) = FileSize(rep) + OffsetsOf(rep[Main].builders)
          /\ FileSizeTotal(rep) >= FileSize(rep)
          /\ adds = <<>> => FileSizeTotal(rep) = FileSize(rep))
    /\ [][/\ FileSize(rep') >= FileSize(rep)
          /\ FileSizeTotal(rep') >= FileSizeTotal(rep)]_vars

C22_Witness ==
    /\ last.op = "Finish" /\ last.ret = OK
    /\ rep[Main].builders = Subs
    /\ \A b \in Subs : rep[b].offset > 0
    /\ FileSizeTotal(rep) > FileSize(rep)
    /\ FileSize(rep) > 0

\* The entries the output holds for user key k.
OutputOf(k) == {e \in cj.output : e.key = k}

\* The tests' compactions end with the results the tests expect.
Expected(T) ==
    (cj.ran /\ cj.input = T.input /\ cj.deeper = T.deeper) =>
        cj.output = T.expected

C24_NonLastLevel ==
    /\ Expected(SimpleNonLastLevel)
    /\ (cj.ran /\ ~IsBottommostLevel(cj)) =>
        /\ cj.output \subseteq cj.input
        /\ \A k \in UserKeys(cj.input) :
              OutputOf(k) = {Newest(cj.input, k)}

C24_Witness ==
    /\ cj.ran /\ ~IsBottommostLevel(cj)
    /\ cj.input = SimpleNonLastLevel.input
    /\ cj.output = SimpleNonLastLevel.expected
    /\ \A e \in cj.output : e.seq > 0
    /\ cj.output # cj.input

\* The positions in the last call's log of the events what of builder b.
Events(b, what) == LogAt(b, what)

\* The handle of the last chunk but one of the file of builder b.
LastBlockHandle(b) ==
    LET f == rep[b].file
    IN  [offset |-> f[Len(f) - 1].at, size |-> f[Len(f) - 1].bytes]

\* C28: an Add that seals a block of a builder first appends the block
\* (body, trailer), then adds the index entry with the handle of that
\* block and the added key as hint, then appends the key to the new data
\* block; a seal whose write fails adds no index entry. In every state an
\* index entry names a data block of the file after which a key was added
\* or Finish was called, and no two entries name the same block.
C28_DeferredIndexEmission ==
    /\ last.op = "Add" =>
          \A b \in Created :
            /\ \A j \in Events(b, "index") :
                  /\ j >= 3 /\ j < Len(last.log)
                  /\ last.log[j - 2].b = b /\ last.log[j - 2].what = "body"
                  /\ last.log[j - 2].kind = "data"
                  /\ last.log[j - 1].b = b /\ last.log[j - 1].what = "trailer"
                  /\ last.log[j].handle = LastBlockHandle(b)
                  /\ last.log[j].has_next
                  /\ last.log[j + 1].b = b /\ last.log[j + 1].what = "add"
                  /\ last.log[j + 1].key = last.log[j].hint
            /\ \A j \in Events(b, "trailer") :
                  rep[b].status = OK =>
                      j < Len(last.log) /\ j + 1 \in Events(b, "index")
            /\ Cardinality(Events(b, "index")) <= 1
            /\ Cardinality(Events(b, "add")) <= 1
    /\ \A b \in Created : \A j \in 1..Len(rep[b].index_builder) :
          LET blk == ReadBlock(rep[b].file, rep[b].index_builder[j].handle)
          IN  /\ blk.status = OK /\ blk.data # <<>>
              /\ \/ finish_called
                 \/ LaterAdded(b, blk.data[Len(blk.data)].key) # {}
              /\ \A i \in 1..(j - 1) :
                    rep[b].index_builder[i].handle.offset
                        < rep[b].index_builder[j].handle.offset

C28_Witness ==
    /\ last.op = "Add" /\ last.ret = OK
    /\ \A b \in Builders : Events(b, "index") # {}
    /\ \A b \in Builders : Len(rep[b].index_builder) = 1
    /\ ~finish_called

\* Handle h names a block of kind kind in file f: a body of h.size bytes
\* at offset h.offset, with its trailer right behind.
Locates(f, h, kind) ==
    \E j \in 1..(Len(f) - 1) :
        /\ f[j].what = "body" /\ f[j].kind = kind
        /\ f[j].at = h.offset /\ f[j].bytes = h.size
        /\ f[j + 1].what = "trailer" /\ f[j + 1].at = h.offset + h.size

\* The bytes the blocks of file f take, trailers included.
RECURSIVE BlockSizes(_)
BlockSizes(f) ==
    IF f = <<>> THEN 0
    ELSE (IF f[1].what = "body" THEN f[1].bytes + kBlockTrailerSize ELSE 0)
         + BlockSizes(Tail(f))

\* C29: in every file of a Finish that returned OK the blocks lie one
\* behind the other, each body followed by its 5-byte trailer, the footer
\* last; the index entries, the footer's metaindex and index handles name
\* the blocks by offset and body size; and FileSize() is the sum of
\* (size + 5) over the blocks plus the footer length.
C29_FileLayout ==
    (last.op = "Finish" /\ last.ret = OK) =>
        \A b \in Created :
            LET f == rep[b].file IN
            /\ f # <<>> /\ f[Len(f)].what = "footer"
            /\ \A j \in 1..(Len(f) - 1) :
                  f[j].what = IF j % 2 = 1 THEN "body" ELSE "trailer"
            /\ Locates(f, f[Len(f)].data.metaindex_handle, "metaindex")
            /\ Locates(f, f[Len(f)].data.index_handle, "index")
            /\ \A j \in 1..Len(rep[b].index_builder) :
                  Locates(f, rep[b].index_builder[j].handle, "data")
            /\ rep[b].offset = FileLength(f)
            /\ rep[b].offset = BlockSizes(f) + kFooterSize

\* Sequence p is the beginning of sequence q.
StartsWith(q, p) == Len(p) <= Len(q) /\ SubSeq(q, 1, Len(p)) = p

\* The opening of a subcolumn file failed in an Add.
OpenFailed == "CreateSubcolumnBuilders: status.ok()" \in assert_failed

\* C30: before the first Add, also after a Finish or an Abandon, there is
\* no subcolumn builder; after the first accepted Add there are exactly
\* column_count of them, the i-th (0-based) on file <name>.C<i+1> with
\* main_column = false; once created the builders stay the same ones:
\* their set and file names do not change and their files and entries only
\* grow.
C30_LazySubcolumnCreation ==
    /\ []((~OpenFailed) =>
            /\ adds = <<>> => rep[Main].builders = {}
            /\ adds # <<>> =>
                  /\ rep[Main].builders = Subs
                  /\ Cardinality(rep[Main].builders) = column_count
                  /\ \A i \in 0..(column_count - 1) :
                        /\ rep[i + 1].fname = rep[Main].fname \o <<"C", i + 1>>
                        /\ ~rep[i + 1].main_column)
    /\ [][(rep[Main].builders # {} /\ ~OpenFailed) =>
            /\ rep'[Main].builders = rep[Main].builders
            /\ \A i \in rep[Main].builders :
                  /\ rep'[i].fname = rep[i].fname
                  /\ rep'[i].main_column = rep[i].main_column
                  /\ StartsWith(rep'[i].file, rep[i].file)
                  /\ StartsWith(rep'[i].added, rep[i].added)]_vars

C30_Witness ==
    /\ Len(adds) = MaxAdds /\ last.op = "Add" /\ last.ret = OK
    /\ ~OpenFailed
    /\ rep[Main].builders = Subs
    /\ \A i \in Subs : Len(rep[i].added) = MaxAdds /\ rep[i].file # <<>>

\* C25: no call of Valid(), GetMinMax() or RangeQuery() reads children_
\* at or past its end.
C25_FileIterBounds == ~fi.oob

\* C26: when the traversal loop ends, it has visited every file once, in
\* index order.
C26_FileIterTraversal ==
    fi.pc = "done" =>
        fi.visited = [k \in 1..Len(fi.iter.children) |-> k - 1]

\* C27: when the child at the cursor returns a non-OK result from
\* GetMinMax or RangeQuery, the FileIter's call returns a non-OK status.
C27_FileIterErrors ==
    (fi.op \in {"GetMinMax", "RangeQuery"} /\ fi.child # OK) => fi.ret # OK

\* The openings of subcolumn files that failed in the last call.
FailedOpens ==
    {j \in 1..Len(last.log) :
        last.log[j].what = "open" /\ last.log[j].kind # OK}

\* C31: a first Add in which the opening of a subcolumn file fails returns
\* with the error latched: no assertion failed, status() is not OK, and no
\* entry was added to the main or to a subcolumn builder.
C31_OpenFailureLatched ==
    (last.op = "Add" /\ FailedOpens # {}) =>
        /\ assert_failed = {}
        /\ status(rep, Main) # OK
        /\ \A b \in Builders : rep[b].added = <<>>

\* The column-meta blocks in the file of builder b.
ColumnBlocks(b) ==
    {j \in 1..Len(rep[b].file) :
        rep[b].file[j].what = "body" /\ rep[b].file[j].kind = "colmeta"}

\* C32: after a Finish that returned OK the main file holds a column-meta
\* block that records main = true and column_count sizes, one per
\* configured column, also when nothing was added.
C32_RecordedColumnCount ==
    (last.op = "Finish" /\ last.ret = OK) =>
        /\ ColumnBlocks(Main) # {}
        /\ \A j \in ColumnBlocks(Main) :
              /\ rep[Main].file[j].data.main
              /\ Len(rep[Main].file[j].data.sizes) = column_count

\* C33: after a Finish that returned OK the main file holds one
\* column-meta block and no subcolumn file holds any, nor a metaindex
\* entry "vidardb.column".
C33_ColumnBlockPlacement ==
    (last.op = "Finish" /\ last.ret = OK) =>
        /\ Cardinality(ColumnBlocks(Main)) = 1
        /\ \A i \in rep[Main].builders :
              /\ ColumnBlocks(i) = {}
              /\ \A j \in 1..Len(rep[i].file) :
                    (rep[i].file[j].what = "body"
                     /\ rep[i].file[j].kind = "metaindex") =>
                        \A k \in 1..Len(rep[i].file[j].data) :
                            rep[i].file[j].data[k].name # "vidardb.column"

\* C34: an Add with a key that is not above the key of the last accepted
\* Add fails no assertion, leaves the status InvalidArgument, and leaves
\* the entries, the offset and the index of every builder as they were.
C34_KeyOrderViolation ==
    [][last'.op = "AddOutOfOrder" =>
          /\ assert_failed' = assert_failed
          /\ status(rep', Main) = InvalidArgument
          /\ \A b \in Builders :
                /\ rep'[b].added = rep[b].added
                /\ rep'[b].offset = rep[b].offset
                /\ rep'[b].index_builder = rep[b].index_builder]_vars

\* C35: the type byte of a block's trailer is kNoCompression iff the raw
\* bytes were stored and the builder's compression type when the codec's
\* output was stored, and always kNoCompression for the column-meta,
\* properties, compression-dictionary and metaindex blocks; the checksum is
\* Mask(CRC32C(stored bytes followed by the type byte)).
C35_BlockFraming ==
    /\ \A j \in 1..Len(wb.blocks) :
          LET blk == wb.blocks[j] IN
          /\ (blk.trailer.type = kNoCompression) <=> ~blk.stored.compressed
          /\ blk.stored.compressed =>
                /\ blk.trailer.type = wb.compression_type
                /\ blk.stored.size = blk.codec.size
          /\ ~blk.stored.compressed => blk.stored.size = blk.raw_size
          /\ blk.trailer.crc =
                 <<"Mask", <<"crc32c",
                             <<[compressed |-> blk.stored.compressed,
                                size |-> blk.stored.size],
                               blk.trailer.type>> >> >>
    /\ \A j \in 1..Len(wb.meta_blocks) :
          LET blk == wb.meta_blocks[j] IN
          /\ blk.trailer.type = kNoCompression
          /\ ~blk.stored.compressed /\ blk.stored.size = blk.raw_size
          /\ blk.trailer.crc =
                 <<"Mask", <<"crc32c",
                             <<[compressed |-> FALSE, size |-> blk.raw_size],
                               kNoCompression>> >> >>

C35_Witness ==
    /\ Len(wb.blocks) = 1 /\ Len(wb.meta_blocks) = 1
    /\ wb.compression_type = "kSnappyCompression"
    /\ wb.blocks[1].stored.compressed
    /\ wb.blocks[1].trailer.type = "kSnappyCompression"
    /\ wb.meta_blocks[1].kind = "props"

\* C36: no call of WriteBlock finds the builder with a status that is not
\* OK: its assertion ok() never fails, in Flush and in Finish.
C36_WriteBlockPrecondition == "WriteBlock: ok()" \notin assert_failed

\* C37: in every state the offset of every created builder is the number
\* of bytes appended to its file, also after a write that failed.
C37_OffsetAccuracy ==
    \A b \in Created : rep[b].offset = FileLength(rep[b].file)

\* The data blocks of file f that have their trailer.
RECURSIVE WholeDataBlocks(_, _)
WholeDataBlocks(f, j) ==
    IF j >= Len(f) THEN <<>>
    ELSE (IF /\ f[j].what = "body" /\ f[j].kind = "data"
             /\ f[j + 1].what = "trailer"
          THEN <<f[j].bytes + kBlockTrailerSize>> ELSE <<>>)
         \o WholeDataBlocks(f, j + 1)

\* C38: in every state num_data_blocks of every created builder is the
\* number of data blocks appended to its file with body and trailer, and
\* data_size is the total size of those blocks with their trailers.
C38_DataBlockAccounting ==
    \A b \in Created :
        /\ rep[b].num_data_blocks = Len(WholeDataBlocks(rep[b].file, 1))
        /\ rep[b].data_size = SumSeq(WholeDataBlocks(rep[b].file, 1))

\* The assertions of AddInSubcolumnBuilders.
SubcolumnAssertions ==
    {"AddInSubcolumnBuilders: !closed",
     "AddInSubcolumnBuilders: key > last_key",
     "AddInSubcolumnBuilders: !empty"}

====
